---- MODULE Spec2Model ----
(***************************************************************************)
(* Model of the deep-reasoning pipeline of ai_detective/backend:           *)
(*   time_series_analyzer.py  (TimeSeriesAnalyzer)                         *)
(*   causal_reasoner.py       (CausalReasoner)                             *)
(*   deep_reasoner.py         (DeepReasoner)                               *)
(*                                                                         *)
(* Text is a sequence of characters.  A character is written as an ASCII   *)
(* token (the module's strings cannot hold CJK); the glossary below gives  *)
(* the character each token stands for.  Digits, ",", ":", "-" and " "     *)
(* stand for themselves, "nl" is the newline.                              *)
(*                                                                         *)
(* Numeric scores are fixed-point integers in units of 1/Scale, so that    *)
(* 0.05 steps, thirds and quarters of the program's weights are exact.     *)
(***************************************************************************)
EXTENDS Integers, Sequences, FiniteSets, TLC

(***************************************************************************)
(* Glossary of character tokens                                            *)
(*  nian 年  yue 月  ri 日  dian 点  shi2 时  fen 分  ban 半  tian 天      *)
(*  qian 前  jin 今  zuo 昨  da 大  xiao 小  zhong1 钟  shang 上  xia 下   *)
(*  wu 午  zao 早  wan 晚  zhong 中  zhou 周  ge 个  qu 去  yin 因  wei 为 *)
(*  suo 所  yi 以  ci 此  er 而  gu 故  you2 由  yu2 于  dao3 导  zhi4 致  *)
(*  yin3 引  qi 起  zao4 造  cheng 成  shi3 使  de 得  jin4 进  cong 从    *)
(*  dao 到  xian 先  kai 开  shi 始  shou 首  zui 最  chu 初  hou 后       *)
(*  jie 接  zhe 着  ran 然  sui 随  zhi 之  di 第  yi1 一  er4 二  shi4 是 *)
(*  bu 不  you 有  mei 没  tong 同  yi4 意  ren 认  zhi1 支  fu 付         *)
(*  wei4 未  shou1 收  zhun 准  bei 备  ji4 计  hua 划  an 安  pai 排      *)
(*  she 设  yu4 预  mou 谋  ce 策  ji2 即  li 立  ke4 刻  ma 马  jin3 紧   *)
(*  leng 冷  jing 静  pai1 拍  zhao 照  lu 录  xiang 像  qu3 取  zheng 证  *)
(*  bao 报  jing3 警  tou 投  su 诉  fa 发  bu4 布  tui 退  kuan 款        *)
(*  chong 冲  tu 突  zheng1 争  zhi2 执  yu3 雨  chi 迟  ta 他  lai 来     *)
(*  dian4 店  li3 里  zou 走  le 了  duan 段  jian1 间  guo 过  hui 会     *)
(*  gd 股  dong 东  ke3 可  cunz 存  zai 在  zhen 真  shi5 实  xu 虚       *)
(*  jia 假  zheng4 正  que 确  cuo 错  wu4 误  wang 网  luo 络  wu2 无     *)
(*  fa3 法  ding 定                                                        *)
(*  Punctuation: "," is the ASCII comma; cjk_comma ，  period 。           *)
(*  excl ！  quest ？  semi ；  colon ：  dun 、                           *)
(***************************************************************************)

(***************************************************************************)
(* Bounds of the model                                                     *)
(***************************************************************************)
MaxFrags == 2

MaxEvidence == 3

Scale == 12 * 100

----------------------------------------------------------------------------
(***************************************************************************)
(* Sequence helpers (Python list / str built-ins)                          *)
(***************************************************************************)
Min2(a, b) == IF a <= b THEN a ELSE b

Max2(a, b) == IF a >= b THEN a ELSE b

\* s[i:j] of Python, 0-based half-open
Slice(s, i, j) ==
  IF Min2(j, Len(s)) <= i THEN << >> ELSE SubSeq(s, i + 1, Min2(j, Len(s)))

RECURSIVE Concat(_)
Concat(ss) == IF ss = << >> THEN << >> ELSE Head(ss) \o Concat(Tail(ss))

\* s.startswith(w, i)
StartsAt(s, w, i) == /\ i + Len(w) <= Len(s)
                     /\ \A k \in 1..Len(w) : s[i + k] = w[k]

\* `w in s' for strings
Contains(s, w) == \E i \in 0..(Len(s) - Len(w)) : StartsAt(s, w, i)

\* s.find(w): 0-based index of the first occurrence, -1 when absent
Find(s, w) == IF Contains(s, w)
              THEN CHOOSE i \in 0..(Len(s) - Len(w)) :
                     /\ StartsAt(s, w, i)
                     /\ \A j \in 0..(i - 1) : ~StartsAt(s, w, j)
              ELSE -1

\* any(kw in s for kw in kws)
ContainsAny(s, kws) == \E k \in 1..Len(kws) : Contains(s, kws[k])

RECURSIVE ReplaceFrom(_, _, _)
\* s.replace(w, "") scanning from 0-based index i
ReplaceFrom(s, w, i) ==
  IF i >= Len(s) THEN << >>
  ELSE IF StartsAt(s, w, i) THEN ReplaceFrom(s, w, i + Len(w))
  ELSE <<s[i + 1]>> \o ReplaceFrom(s, w, i + 1)

Remove(s, w) == IF w = << >> THEN s ELSE ReplaceFrom(s, w, 0)

Whitespace == {" ", "nl"}

RECURSIVE LStrip(_)
LStrip(s) == IF s # << >> /\ Head(s) \in Whitespace THEN LStrip(Tail(s)) ELSE s

RECURSIVE RStrip(_)
RStrip(s) == IF s # << >> /\ s[Len(s)] \in Whitespace
             THEN RStrip(SubSeq(s, 1, Len(s) - 1)) ELSE s

\* str.strip()
Strip(s) == RStrip(LStrip(s))

RECURSIVE SplitOn(_, _, _)
\* re.split on a one-character class / str.split on one character:
\* cur is the piece being accumulated
SplitOn(s, seps, cur) ==
  IF s = << >> THEN <<cur>>
  ELSE IF Head(s) \in seps THEN <<cur>> \o SplitOn(Tail(s), seps, << >>)
  ELSE SplitOn(Tail(s), seps, Append(cur, Head(s)))

Split(s, seps) == SplitOn(s, seps, << >>)

RECURSIVE FilterOut(_, _)
\* re.sub('[...]', '', s) for a character class
FilterOut(s, cls) ==
  IF s = << >> THEN << >>
  ELSE IF Head(s) \in cls THEN FilterOut(Tail(s), cls)
  ELSE <<Head(s)>> \o FilterOut(Tail(s), cls)

Digits == {"0", "1", "2", "3", "4", "5", "6", "7", "8", "9"}

DigitVal(c) == CASE c = "0" -> 0 [] c = "1" -> 1 [] c = "2" -> 2 [] c = "3" -> 3
                 [] c = "4" -> 4 [] c = "5" -> 5 [] c = "6" -> 6 [] c = "7" -> 7
                 [] c = "8" -> 8 [] c = "9" -> 9

RECURSIVE IntOf(_, _)
\* int(s) for a string of digits, acc is the value read so far
IntOf(s, acc) == IF s = << >> THEN acc
                 ELSE IntOf(Tail(s), acc * 10 + DigitVal(Head(s)))

RECURSIVE DigitRuns(_, _)
\* re.findall(r'\d+', s): the maximal runs of digits, as integers
DigitRuns(s, cur) ==
  IF s = << >> THEN (IF cur = << >> THEN << >> ELSE <<IntOf(cur, 0)>>)
  ELSE IF Head(s) \in Digits THEN DigitRuns(Tail(s), Append(cur, Head(s)))
  ELSE (IF cur = << >> THEN << >> ELSE <<IntOf(cur, 0)>>)
       \o DigitRuns(Tail(s), << >>)
----------------------------------------------------------------------------
(***************************************************************************)
(* Regular expressions (Python `re', backtracking semantics).  A pattern   *)
(* is a tree; Run returns every way the pattern can match at a position,   *)
(* in the order the backtracking matcher tries them, so the head of the    *)
(* result is the match `re' reports.                                       *)
(***************************************************************************)
Lit(c) == [t |-> "lit", c |-> c]

Cls(S) == [t |-> "cls", s |-> S]

\* `.' : any character except a newline
Dot == [t |-> "dot"]

Cat(ns) == [t |-> "cat", ns |-> ns]

Alt(ns) == [t |-> "alt", ns |-> ns]

\* n{lo,hi}, greedy or lazy (n{lo,hi}?); hi < 0 is "no upper limit"
Rep(n, lo, hi, greedy) ==
  [t |-> "rep", n |-> n, lo |-> lo, hi |-> hi, g |-> greedy]

\* capturing group number i
Grp(i, n) == [t |-> "grp", i |-> i, n |-> n]

\* a literal word
Word(w) == Cat([k \in 1..Len(w) |-> Lit(w[k])])

\* \d
Digit == Cls(Digits)

\* \s
Space == Cls(Whitespace)

\* n? , n+ , n*
Opt(n) == Rep(n, 0, 1, TRUE)

Plus(n) == Rep(n, 1, -1, TRUE)

Star(n) == Rep(n, 0, -1, TRUE)

NoSpan == <<-1, -1>>

MaxGroups == 5

NoCaps == [k \in 1..MaxGroups |-> NoSpan]

SetMax(S) == CHOOSE x \in S : \A y \in S : y <= x

SetMin(S) == CHOOSE x \in S : \A y \in S : x <= y

\* whether the one-character node n matches the character ch
CharOk(n, ch) ==
  CASE n.t = "lit" -> ch = n.c
    [] n.t = "cls" -> ch \in n.s
    [] n.t = "dot" -> ch # "nl"

RECURSIVE First(_)
\* what a match of the node sequence ns can begin with: any character
\* (any), a character of s, or nothing at all (e, the empty match)
First(ns) ==
  IF ns = << >> THEN [any |-> FALSE, s |-> {}, e |-> TRUE]
  ELSE LET n == Head(ns)
           rest == Tail(ns)
       IN  CASE n.t = "lit" -> [any |-> FALSE, s |-> {n.c}, e |-> FALSE]
             [] n.t = "cls" -> [any |-> FALSE, s |-> n.s, e |-> FALSE]
             [] n.t = "dot" -> [any |-> TRUE, s |-> {}, e |-> FALSE]
             [] n.t = "cat" -> First(n.ns \o rest)
             [] n.t = "alt" ->
                  LET fs == {First(<<n.ns[k]>> \o rest) : k \in 1..Len(n.ns)}
                  IN  [any |-> \E f \in fs : f.any,
                       s |-> UNION {f.s : f \in fs},
                       e |-> \E f \in fs : f.e]
             [] n.t = "rep" ->
                  LET a == First(<<n.n>>)
                      b == First(rest)
                  IN  IF a.e THEN [any |-> TRUE, s |-> {}, e |-> TRUE]
                      ELSE IF n.lo > 0 THEN a
                      ELSE [any |-> a.any \/ b.any, s |-> a.s \cup b.s,
                            e |-> b.e]
             [] n.t = "grp" -> First(<<n.n>> \o rest)
             [] n.t = "end" -> First(rest)

\* whether a match beginning as f says can start at position p of txt
CanStart(f, txt, p) ==
  f.any \/ f.e \/ (p < Len(txt) /\ txt[p + 1] \in f.s)

RECURSIVE Run(_, _, _, _), RunAlt(_, _, _, _, _, _)
\* the backtracking matcher: ns is the sequence of nodes still to match
\* from 0-based position p of txt with captures c; the result is the first
\* way to match all of them in the order the re module tries them,
\* <<[p |-> end, c |-> captures]>>, or the empty sequence
Run(ns, txt, p, c) ==
  IF ns = << >> THEN <<[p |-> p, c |-> c]>>
  ELSE LET n == Head(ns)
           rest == Tail(ns)
       IN  CASE n.t \in {"lit", "cls", "dot"} ->
                  IF p < Len(txt) /\ CharOk(n, txt[p + 1])
                  THEN Run(rest, txt, p + 1, c) ELSE << >>
             [] n.t = "cat" -> Run(n.ns \o rest, txt, p, c)
             [] n.t = "alt" -> RunAlt(n.ns, 1, rest, txt, p, c)
             [] n.t = "rep" /\ n.n.t \in {"lit", "cls", "dot"} ->
                  LET limit == IF n.hi < 0 THEN Len(txt) - p
                               ELSE Min2(n.hi, Len(txt) - p)
                      run == SetMax({k \in 0..limit :
                                       \A j \in 1..k : CharOk(n.n, txt[p + j])})
                      f == First(rest)
                      ok == {k \in n.lo..run :
                               /\ CanStart(f, txt, p + k)
                               /\ Run(rest, txt, p + k, c) # << >>}
                  IN  IF ok = {} THEN << >>
                      ELSE Run(rest, txt,
                               p + (IF n.g THEN SetMax(ok) ELSE SetMin(ok)), c)
             [] n.t = "rep" /\ n.n.t \notin {"lit", "cls", "dot"} ->
                  LET stop == IF n.lo <= 0 THEN Run(rest, txt, p, c) ELSE << >>
                      again == [n EXCEPT !.lo = IF @ > 0 THEN @ - 1 ELSE 0,
                                         !.hi = IF @ > 0 THEN @ - 1 ELSE @]
                      more == IF n.hi # 0
                              THEN Run(<<n.n, again>> \o rest, txt, p, c)
                              ELSE << >>
                  IN  IF n.g
                      THEN (IF more # << >> THEN more ELSE stop)
                      ELSE (IF stop # << >> THEN stop ELSE more)
             [] n.t = "grp" ->
                  Run(<<n.n, [t |-> "end", i |-> n.i, s |-> p]>> \o rest,
                      txt, p, c)
             [] n.t = "end" ->
                  Run(rest, txt, p, [c EXCEPT ![n.i] = <<n.s, p>>])

\* the alternatives of an alternation from the k-th on, in order
RunAlt(ns, k, rest, txt, p, c) ==
  IF k > Len(ns) THEN << >>
  ELSE LET r == Run(<<ns[k]>> \o rest, txt, p, c)
       IN  IF r # << >> THEN r ELSE RunAlt(ns, k + 1, rest, txt, p, c)

\* the match object of a run rs of the matcher from position p
MatchOf(rs, p) ==
  IF rs = << >> THEN << >>
  ELSE <<[s |-> p, e |-> rs[1].p, c |-> rs[1].c]>>

\* re.match / one step of re.search at position p: the first match, or
\* the empty sequence
MatchAt(n, txt, p) == MatchOf(Run(<<n>>, txt, p, NoCaps), p)

\* re.match(n, txt) is not None
Matches(n, txt) == MatchAt(n, txt, 0) # << >>

RECURSIVE FindIterFrom(_, _, _, _), FindIterAfter(_, _, _, _, _)
\* re.finditer(n, txt) from position p on, f being First(<<n>>)
FindIterFrom(n, f, txt, p) ==
  IF p > Len(txt) THEN << >>
  ELSE FindIterAfter(n, f, txt, p,
                     IF CanStart(f, txt, p) THEN MatchAt(n, txt, p) ELSE << >>)

\* the search goes on after the attempt m at position p
FindIterAfter(n, f, txt, p, m) ==
  IF m = << >> THEN FindIterFrom(n, f, txt, p + 1)
  ELSE m \o FindIterFrom(n, f, txt, IF m[1].e > p THEN m[1].e ELSE p + 1)

\* re.finditer(n, txt): the non-overlapping matches from left to right
FindIter(n, txt) == FindIterFrom(n, First(<<n>>), txt, 0)

\* the first of the matches ms, if any
FirstMatch(ms) == IF ms = << >> THEN << >> ELSE <<ms[1]>>

\* re.search(n, txt): the leftmost match or the empty sequence
Search(n, txt) == FirstMatch(FindIter(n, txt))

\* match.group(i) as text, i >= 1
Group(m, txt, i) == Slice(txt, m.c[i][1], m.c[i][2])

\* match.group(0)
Group0(m, txt) == Slice(txt, m.s, m.e)

RECURSIVE SubFrom(_, _, _, _), SubAfter(_, _, _, _, _)
\* re.sub(n, '', txt) from position p on, f being First(<<n>>)
SubFrom(n, f, txt, p) ==
  IF p >= Len(txt) THEN << >>
  ELSE SubAfter(n, f, txt, p,
                IF CanStart(f, txt, p) THEN MatchAt(n, txt, p) ELSE << >>)

\* the substitution goes on after the attempt m at position p
SubAfter(n, f, txt, p, m) ==
  IF m # << >> /\ m[1].e > p THEN SubFrom(n, f, txt, m[1].e)
  ELSE <<txt[p + 1]>> \o SubFrom(n, f, txt, p + 1)

\* re.sub(n, '', txt)
Sub(n, txt) == SubFrom(n, First(<<n>>), txt, 0)

----------------------------------------------------------------------------
(***************************************************************************)
(* Fixed-point scores                                                      *)
(***************************************************************************)
\* the score n/d
Frac(n, d) == (n * Scale) \div d

\* the product of two scores
Mul(a, b) == (a * b) \div Scale

----------------------------------------------------------------------------
(***************************************************************************)
(* datetime / timedelta (Python standard library), to the second.          *)
(* An optional value is a sequence: << >> is None, <<v>> is the value v.   *)
(* A constructor that raises ValueError/OverflowError yields << >>; the    *)
(* caller decides whether the exception is caught.                         *)
(***************************************************************************)
IsLeap(y) == (y % 4 = 0 /\ y % 100 # 0) \/ y % 400 = 0

DaysInMonth(y, m) == CASE m \in {1, 3, 5, 7, 8, 10, 12} -> 31
                       [] m \in {4, 6, 9, 11} -> 30
                       [] m = 2 -> IF IsLeap(y) THEN 29 ELSE 28

\* datetime(year, month, day, hour, minute, second); << >> when it raises
datetime(y, mo, d, h, mi, s) ==
  IF /\ y \in 1..9999 /\ mo \in 1..12 /\ d \in 1..DaysInMonth(y, mo)
     /\ h \in 0..23 /\ mi \in 0..59 /\ s \in 0..59
  THEN <<[y |-> y, mo |-> mo, d |-> d, h |-> h, mi |-> mi, s |-> s]>>
  ELSE << >>

\* datetime.max, to the second
datetime_max == [y |-> 9999, mo |-> 12, d |-> 31, h |-> 23, mi |-> 59, s |-> 59]

DaysBeforeYear(y) == LET p == y - 1
                     IN  p * 365 + (p \div 4) - (p \div 100) + (p \div 400)

RECURSIVE DaysBeforeMonth(_, _)
DaysBeforeMonth(y, m) ==
  IF m = 1 THEN 0 ELSE DaysBeforeMonth(y, m - 1) + DaysInMonth(y, m - 1)

\* date.toordinal()
ToOrdinal(dt) == DaysBeforeYear(dt.y) + DaysBeforeMonth(dt.y, dt.mo) + dt.d

SecondOfDay(dt) == dt.h * 3600 + dt.mi * 60 + dt.s

\* the date with ordinal n >= 1 at second sod of the day
FromOrdinal(n, sod) ==
  LET y   == CHOOSE yy \in Max2(1, n \div 366)..((n \div 365) + 1) :
               DaysBeforeYear(yy) < n /\ n <= DaysBeforeYear(yy + 1)
      doy == n - DaysBeforeYear(y)
      mo  == CHOOSE m \in 1..12 :
               /\ DaysBeforeMonth(y, m) < doy
               /\ doy <= DaysBeforeMonth(y, m) + DaysInMonth(y, m)
  IN  [y |-> y, mo |-> mo, d |-> doy - DaysBeforeMonth(y, mo),
       h |-> sod \div 3600, mi |-> (sod % 3600) \div 60, s |-> sod % 60]

\* a < b, a <= b on datetimes
DtLess(a, b) ==
  \/ ToOrdinal(a) < ToOrdinal(b)
  \/ ToOrdinal(a) = ToOrdinal(b) /\ SecondOfDay(a) < SecondOfDay(b)

DtLeq(a, b) == ~DtLess(b, a)

\* (b - a).total_seconds()
SecondsBetween(a, b) ==
  (ToOrdinal(b) - ToOrdinal(a)) * 86400 + SecondOfDay(b) - SecondOfDay(a)

\* MinusDelta going forward in time
MinusDeltaForward(dt, days, seconds) ==
  <<FromOrdinal(ToOrdinal(dt) + days, SecondOfDay(dt))>>

\* dt - timedelta(days, seconds); << >> when the result is before year 1
\* (OverflowError)
MinusDelta(dt, days, seconds) ==
  LET t   == SecondOfDay(dt) - seconds
      ord == ToOrdinal(dt) - days + (t \div 86400)
  IN  IF ord < 1 \/ ord > DaysBeforeYear(10000) THEN << >>
      ELSE <<FromOrdinal(ord, t % 86400)>>

\* dt.replace(hour=h, minute=mi, second=0, microsecond=0)
ReplaceTime(dt, h, mi) == datetime(dt.y, dt.mo, dt.d, h, mi, 0)

----------------------------------------------------------------------------
(***************************************************************************)
(* TimeSeriesAnalyzer: extraction                                          *)
(***************************************************************************)
\* the ordered table of (pattern, precision) entries of extract_timestamps;
\* TimePrecision has no WEEK member, so the entry for 上周 has precision DAY
patterns == <<
  \* (\d{4})年(\d{1,2})月(\d{1,2})日\s*(\d{1,2})[点时](\d{1,2})?分?
  [re |-> Cat(<<Grp(1, Rep(Digit, 4, 4, TRUE)), Lit("nian"), Grp(2,
         Rep(Digit, 1, 2, TRUE)), Lit("yue"), Grp(3, Rep(Digit, 1, 2, TRUE)),
         Lit("ri"), Star(Space), Grp(4, Rep(Digit, 1, 2, TRUE)), Cls({"dian",
         "shi2"}), Opt(Grp(5, Rep(Digit, 1, 2, TRUE))), Opt(Lit("fen"))>>),
   precision |-> "MINUTE"],
  \* (\d{4})年(\d{1,2})月(\d{1,2})日\s*(\d{1,2}):(\d{2})
  [re |-> Cat(<<Grp(1, Rep(Digit, 4, 4, TRUE)), Lit("nian"), Grp(2,
         Rep(Digit, 1, 2, TRUE)), Lit("yue"), Grp(3, Rep(Digit, 1, 2, TRUE)),
         Lit("ri"), Star(Space), Grp(4, Rep(Digit, 1, 2, TRUE)), Lit(":"),
         Grp(5, Rep(Digit, 2, 2, TRUE))>>),
   precision |-> "MINUTE"],
  \* (\d{4})年(\d{1,2})月(\d{1,2})日
  [re |-> Cat(<<Grp(1, Rep(Digit, 4, 4, TRUE)), Lit("nian"), Grp(2,
         Rep(Digit, 1, 2, TRUE)), Lit("yue"), Grp(3, Rep(Digit, 1, 2, TRUE)),
         Lit("ri")>>),
   precision |-> "DAY"],
  \* (\d{1,2})月(\d{1,2})日\s*(\d{1,2})[点时](\d{1,2})?分?
  [re |-> Cat(<<Grp(1, Rep(Digit, 1, 2, TRUE)), Lit("yue"), Grp(2, Rep(Digit,
         1, 2, TRUE)), Lit("ri"), Star(Space), Grp(3, Rep(Digit, 1, 2,
         TRUE)), Cls({"dian", "shi2"}), Opt(Grp(4, Rep(Digit, 1, 2, TRUE))),
         Opt(Lit("fen"))>>),
   precision |-> "MINUTE"],
  \* (\d{1,2})月(\d{1,2})日\s*(\d{1,2}):(\d{2})
  [re |-> Cat(<<Grp(1, Rep(Digit, 1, 2, TRUE)), Lit("yue"), Grp(2, Rep(Digit,
         1, 2, TRUE)), Lit("ri"), Star(Space), Grp(3, Rep(Digit, 1, 2,
         TRUE)), Lit(":"), Grp(4, Rep(Digit, 2, 2, TRUE))>>),
   precision |-> "MINUTE"],
  \* (\d{1,2})月(\d{1,2})日
  [re |-> Cat(<<Grp(1, Rep(Digit, 1, 2, TRUE)), Lit("yue"), Grp(2, Rep(Digit,
         1, 2, TRUE)), Lit("ri")>>),
   precision |-> "DAY"],
  \* (今天|今日)
  [re |-> Grp(1, Alt(<<Word(<<"jin", "tian">>), Word(<<"jin", "ri">>)>>)),
   precision |-> "DAY"],
  \* (昨天|昨日)
  [re |-> Grp(1, Alt(<<Word(<<"zuo", "tian">>), Word(<<"zuo", "ri">>)>>)),
   precision |-> "DAY"],
  \* (前天)
  [re |-> Grp(1, Word(<<"qian", "tian">>)),
   precision |-> "DAY"],
  \* (大前天)
  [re |-> Grp(1, Word(<<"da", "qian", "tian">>)),
   precision |-> "DAY"],
  \* (\d+)天前
  [re |-> Cat(<<Grp(1, Plus(Digit)), Word(<<"tian", "qian">>)>>),
   precision |-> "DAY"],
  \* (\d+)小时前
  [re |-> Cat(<<Grp(1, Plus(Digit)), Word(<<"xiao", "shi2", "qian">>)>>),
   precision |-> "HOUR"],
  \* (\d+)分钟前
  [re |-> Cat(<<Grp(1, Plus(Digit)), Word(<<"fen", "zhong1", "qian">>)>>),
   precision |-> "MINUTE"],
  \* 上周
  [re |-> Word(<<"shang", "zhou">>),
   precision |-> "DAY"],
  \* 上周(\d)
  [re |-> Cat(<<Word(<<"shang", "zhou">>), Grp(1, Digit)>>),
   precision |-> "DAY"],
  \* 上个月|上上月
  [re |-> Alt(<<Word(<<"shang", "ge", "yue">>), Word(<<"shang", "shang",
         "yue">>)>>),
   precision |-> "MONTH"],
  \* (今年|去年|前年)
  [re |-> Grp(1, Alt(<<Word(<<"jin", "nian">>), Word(<<"qu", "nian">>),
         Word(<<"qian", "nian">>)>>)),
   precision |-> "YEAR"],
  \* 早上(\d{1,2})[点时](\d{1,2})?分?
  [re |-> Cat(<<Word(<<"zao", "shang">>), Grp(1, Rep(Digit, 1, 2, TRUE)),
         Cls({"dian", "shi2"}), Opt(Grp(2, Rep(Digit, 1, 2, TRUE))),
         Opt(Lit("fen"))>>),
   precision |-> "MINUTE"],
  \* 下午(\d{1,2})[点时](\d{1,2})?分?
  [re |-> Cat(<<Word(<<"xia", "wu">>), Grp(1, Rep(Digit, 1, 2, TRUE)),
         Cls({"dian", "shi2"}), Opt(Grp(2, Rep(Digit, 1, 2, TRUE))),
         Opt(Lit("fen"))>>),
   precision |-> "MINUTE"],
  \* 晚上(\d{1,2})[点时](\d{1,2})?分?
  [re |-> Cat(<<Word(<<"wan", "shang">>), Grp(1, Rep(Digit, 1, 2, TRUE)),
         Cls({"dian", "shi2"}), Opt(Grp(2, Rep(Digit, 1, 2, TRUE))),
         Opt(Lit("fen"))>>),
   precision |-> "MINUTE"],
  \* 中午(\d{1,2})[点时](\d{1,2})?分?
  [re |-> Cat(<<Word(<<"zhong", "wu">>), Grp(1, Rep(Digit, 1, 2, TRUE)),
         Cls({"dian", "shi2"}), Opt(Grp(2, Rep(Digit, 1, 2, TRUE))),
         Opt(Lit("fen"))>>),
   precision |-> "MINUTE"],
  \* (\d{1,2})点(\d{1,2})?分
  [re |-> Cat(<<Grp(1, Rep(Digit, 1, 2, TRUE)), Lit("dian"), Opt(Grp(2,
         Rep(Digit, 1, 2, TRUE))), Lit("fen")>>),
   precision |-> "MINUTE"],
  \* (\d{1,2})点([半])
  [re |-> Cat(<<Grp(1, Rep(Digit, 1, 2, TRUE)), Lit("dian"), Grp(2,
         Cls({"ban"}))>>),
   precision |-> "MINUTE"]
>>

\* (\d{4})年(\d{1,2})月(\d{1,2})日
date_pattern_cn == Cat(<<Grp(1, Rep(Digit, 4, 4, TRUE)), Lit("nian"), Grp(2,
    Rep(Digit, 1, 2, TRUE)), Lit("yue"), Grp(3, Rep(Digit, 1, 2, TRUE)),
    Lit("ri")>>)

\* (\d{4})-(\d{1,2})-(\d{1,2})
date_pattern_iso == Cat(<<Grp(1, Rep(Digit, 4, 4, TRUE)), Lit("-"), Grp(2,
    Rep(Digit, 1, 2, TRUE)), Lit("-"), Grp(3, Rep(Digit, 1, 2, TRUE))>>)

\* \d{4}年\d{1,2}月\d{1,2}日
re_full_date == Cat(<<Rep(Digit, 4, 4, TRUE), Lit("nian"), Rep(Digit, 1, 2,
    TRUE), Lit("yue"), Rep(Digit, 1, 2, TRUE), Lit("ri")>>)

\* \d{1,2}月\d{1,2}日
re_month_day == Cat(<<Rep(Digit, 1, 2, TRUE), Lit("yue"), Rep(Digit, 1, 2,
    TRUE), Lit("ri")>>)

\* \d+天前
re_days_ago == Cat(<<Plus(Digit), Word(<<"tian", "qian">>)>>)

\* \d+小时前
re_hours_ago == Cat(<<Plus(Digit), Word(<<"xiao", "shi2", "qian">>)>>)

\* \d+分钟前
re_minutes_ago == Cat(<<Plus(Digit), Word(<<"fen", "zhong1", "qian">>)>>)

\* [早中晚]上?\d+[点时]
re_colloquial == Cat(<<Cls({"zao", "zhong", "wan"}), Opt(Lit("shang")),
    Plus(Digit), Cls({"dian", "shi2"})>>)

\* \d+点\d?分?
re_bare_hour == Cat(<<Plus(Digit), Lit("dian"), Opt(Digit), Opt(Lit("fen"))>>)

\* (\d+)分
re_minute == Cat(<<Grp(1, Plus(Digit)), Lit("fen")>>)

\* words tested with `in' by _parse_datetime
\* 今天
W_JINTIAN == <<"jin", "tian">>

\* 今日
W_JINRI == <<"jin", "ri">>

\* 昨天
W_ZUOTIAN == <<"zuo", "tian">>

\* 昨日
W_ZUORI == <<"zuo", "ri">>

\* 前天
W_QIANTIAN == <<"qian", "tian">>

\* 大前天
W_DAQIANTIAN == <<"da", "qian", "tian">>

\* 下午
W_XIAWU == <<"xia", "wu">>

\* 晚上
W_WANSHANG == <<"wan", "shang">>

\* 中午
W_ZHONGWU == <<"zhong", "wu">>

\* 半
W_BAN == <<"ban">>

\* int of capture group i of match m
GroupInt(m, txt, i) == IntOf(Group(m, txt, i), 0)

\* the first of two optional values that is present
FirstOf(a, b) == IF a # << >> THEN a ELSE b

\* datetime(year, month, day) as an outcome: a ValueError is raised when
\* the date does not exist
Constructed(dt) ==
  IF dt = << >> THEN [raised |-> TRUE, value |-> << >>]
  ELSE [raised |-> FALSE, value |-> dt]

\* the reference date given the first year-month-day match m of the text
ReferenceFrom(m, text, now) ==
  IF m = << >> THEN [raised |-> FALSE, value |-> <<now>>]
  ELSE Constructed(datetime(GroupInt(m[1], text, 1), GroupInt(m[1], text, 2),
                            GroupInt(m[1], text, 3), 0, 0, 0))

\* _determine_reference_date(text): [raised, value].  The datetime built
\* from the first absolute date in the text is not guarded: an impossible
\* date raises ValueError out of the function.
_determine_reference_date(text, now) ==
  ReferenceFrom(FirstOf(Search(date_pattern_cn, text),
                        Search(date_pattern_iso, text)), text, now)

\* d.replace(hour=0, minute=0, ...) of an optional datetime d
MidnightOf(d) == IF d = << >> THEN << >> ELSE ReplaceTime(d[1], 0, 0)

\* midnight of the day `days' before reference
MidnightBefore(reference, days) ==
  MidnightOf(MinusDelta(reference, days, 0))

\* the minute given the search mm for a number before 分
MinuteFrom(mm, text) ==
  IF mm # << >> THEN GroupInt(mm[1], text, 1)
  ELSE IF Contains(text, W_BAN) THEN 30 ELSE 0

\* the minute of a colloquial expression: the number before 分, else 30
\* when 半 is present, else 0
MinuteOf(text) == MinuteFrom(Search(re_minute, text), text)

\* _parse_datetime applying the afternoon shift of a bare clock time to the
\* hour of a full date as well
_parse_datetime_afternoon(text, reference) ==
  IF Matches(re_full_date, text) /\ Len(DigitRuns(text, << >>)) >= 5
  THEN datetime(DigitRuns(text, << >>)[1], DigitRuns(text, << >>)[2],
                DigitRuns(text, << >>)[3],
                IF DigitRuns(text, << >>)[4] < 12
                THEN DigitRuns(text, << >>)[4] + 12
                ELSE DigitRuns(text, << >>)[4],
                DigitRuns(text, << >>)[5], 0)
  ELSE << >>

\* _parse_datetime(text, reference, precision): the resolved datetime or
\* None.  Every exception raised inside is caught and gives None.
_parse_datetime(text, reference) ==
  LET parts == DigitRuns(text, << >>)
  IN  IF Matches(re_full_date, text) THEN
        IF Len(parts) >= 3
        THEN datetime(parts[1], parts[2], parts[3],
                      IF Len(parts) >= 4 THEN parts[4] ELSE 0,
                      IF Len(parts) >= 5 THEN parts[5] ELSE 0, 0)
        ELSE << >>
      ELSE IF Matches(re_month_day, text) THEN
        IF Len(parts) >= 2
        THEN datetime(reference.y, parts[1], parts[2],
                      IF Len(parts) >= 3 THEN parts[3] ELSE 0,
                      IF Len(parts) >= 4 THEN parts[4] ELSE 0, 0)
        ELSE << >>
      ELSE IF Contains(text, W_JINTIAN) \/ Contains(text, W_JINRI) THEN
        ReplaceTime(reference, 0, 0)
      ELSE IF Contains(text, W_ZUOTIAN) \/ Contains(text, W_ZUORI) THEN
        MidnightBefore(reference, 1)
      ELSE IF Contains(text, W_QIANTIAN) THEN
        MidnightBefore(reference, 2)
      ELSE IF Contains(text, W_DAQIANTIAN) THEN
        MidnightBefore(reference, 3)
      ELSE IF Matches(re_days_ago, text) THEN
        MinusDelta(reference, parts[1], 0)
      ELSE IF Matches(re_hours_ago, text) THEN
        MinusDelta(reference, 0, parts[1] * 3600)
      ELSE IF Matches(re_minutes_ago, text) THEN
        MinusDelta(reference, 0, parts[1] * 60)
      ELSE IF Matches(re_colloquial, text) THEN
        LET h0 == parts[1]
            hour == IF Contains(text, W_XIAWU) \/ Contains(text, W_WANSHANG)
                    THEN (IF h0 # 12 THEN h0 + 12 ELSE h0)
                    ELSE IF Contains(text, W_ZHONGWU) THEN 12 ELSE h0
        IN  ReplaceTime(reference, hour, MinuteOf(text))
      ELSE IF Matches(re_bare_hour, text) THEN
        LET h0 == parts[1]
        IN  ReplaceTime(reference, IF h0 < 12 THEN h0 + 12 ELSE h0,
                        MinuteOf(text))
      ELSE << >>

\* _extract_event_context(time_text, full_text): 50 characters either side
\* of the first occurrence, stripped, with the time text removed
_extract_event_context(time_text, full_text) ==
  LET idx   == Find(full_text, time_text)
      start == Max2(0, idx - 50)
      end   == Min2(Len(full_text), idx + Len(time_text) + 50)
  IN  IF idx = -1 THEN << >>
      ELSE Strip(Remove(Strip(Slice(full_text, start, end)), time_text))

\* the Timestamp built in the extraction loop for one match, dt being
\* what _parse_datetime made of the matched text
NewTimestamp(fact_id, matched_text, precision, text, dt) ==
  [id |-> fact_id, text |-> matched_text, datetime |-> dt,
   precision |-> precision,
   event |-> _extract_event_context(matched_text, text),
   confidence |-> IF dt # << >> THEN Frac(9, 10) ELSE Frac(7, 10),
   is_estimate |-> (dt = << >>)]

\* the Timestamps of the matches ms of one table entry, n made so far
TimestampsOf(ms, precision, text, reference, n) ==
  [i \in 1..Len(ms) |->
     NewTimestamp(n + i, Group0(ms[i], text), precision, text,
                  _parse_datetime(Group0(ms[i], text), reference))]

RECURSIVE Candidates(_, _, _, _), CandidatesAfter(_, _, _, _, _)
\* the extraction loop from table entry k on, n Timestamps made so far
Candidates(k, text, reference, n) ==
  IF k > Len(patterns) THEN << >>
  ELSE CandidatesAfter(k, text, reference, n, FindIter(patterns[k].re, text))

\* the extraction loop from the matches ms of table entry k on
CandidatesAfter(k, text, reference, n, ms) ==
  TimestampsOf(ms, patterns[k].precision, text, reference, n)
  \o Candidates(k + 1, text, reference, n + Len(ms))

RECURSIVE KeysOf(_, _)
\* the keys of the groups dict, in insertion order
KeysOf(timestamps, seen) ==
  IF timestamps = << >> THEN << >>
  ELSE IF Head(timestamps).text \in seen THEN KeysOf(Tail(timestamps), seen)
  ELSE <<Head(timestamps).text>>
       \o KeysOf(Tail(timestamps), seen \cup {Head(timestamps).text})

\* BestOf keeping the last of the group whatever its confidence
BestOfLast(group) == group[Len(group)]

\* max(group, key=lambda x: x.confidence): the first of the maximal ones
BestOf(group) ==
  group[CHOOSE i \in 1..Len(group) :
          /\ \A j \in 1..Len(group) : group[j].confidence <= group[i].confidence
          /\ \A j \in 1..(i - 1) : group[j].confidence < group[i].confidence]

\* _deduplicate_timestamps(timestamps)
_deduplicate_timestamps(timestamps) ==
  LET keys == KeysOf(timestamps, {})
      GroupOf(key) == SelectSeq(timestamps, LAMBDA ts : ts.text = key)
  IN  [k \in 1..Len(keys) |-> BestOf(GroupOf(keys[k]))]

\* extract_timestamps once the reference date ref is determined
ExtractWith(ref, text) ==
  IF ref.raised THEN [raised |-> TRUE, timestamps |-> << >>]
  ELSE [raised |-> FALSE,
        timestamps |->
          _deduplicate_timestamps(Candidates(1, text, ref.value[1], 0))]

\* extract_timestamps(text): [raised, timestamps]
extract_timestamps(text, now) ==
  ExtractWith(_determine_reference_date(text, now), text)

----------------------------------------------------------------------------
(***************************************************************************)
(* Timeline construction                                                   *)
(***************************************************************************)
\* the sort key of Timeline.add_timestamp: t.datetime or datetime.max
SortKey(t) == IF t.datetime # << >> THEN t.datetime[1] ELSE datetime_max

RECURSIVE InsertByKey(_, _)
\* t placed after every element of the sorted list s whose key is <= its own
InsertByKey(s, t) ==
  IF s = << >> THEN <<t>>
  ELSE IF DtLess(SortKey(t), SortKey(Head(s))) THEN <<t>> \o s
  ELSE <<Head(s)>> \o InsertByKey(Tail(s), t)

RECURSIVE SortedFrom(_, _)
\* list.sort(key=...): stable, ascending; acc is the sorted prefix
SortedFrom(s, acc) ==
  IF s = << >> THEN acc ELSE SortedFrom(Tail(s), InsertByKey(acc, Head(s)))

SortByDatetime(s) == SortedFrom(s, << >>)

\* Timeline.add_timestamp: append, then re-sort
add_timestamp(timestamps, timestamp) ==
  SortByDatetime(Append(timestamps, timestamp))

RECURSIVE AddAll(_, _)
AddAll(timestamps, new) ==
  IF new = << >> THEN timestamps
  ELSE AddAll(add_timestamp(timestamps, Head(new)), Tail(new))

\* the text " -> " that joins the two events of an interval description
ARROW == <<" ", "arrow", " ">>

\* the TimeInterval between two adjacent resolved timestamps
NewInterval(a, b) ==
  [start |-> a, end |-> b,
   duration |-> SecondsBetween(a.datetime[1], b.datetime[1]),
   description |-> a.event \o ARROW \o b.event]

RECURSIVE IntervalsFrom(_, _)
\* the interval loop of build_timeline from index i on
IntervalsFrom(ts, i) ==
  IF i >= Len(ts) THEN << >>
  ELSE (IF ts[i].datetime # << >> /\ ts[i + 1].datetime # << >>
        THEN <<NewInterval(ts[i], ts[i + 1])>> ELSE << >>)
       \o IntervalsFrom(ts, i + 1)

\* build_timeline without the filter on t.datetime
build_timeline_unfiltered(timestamps) ==
  LET placed == AddAll(<< >>, SortByDatetime(timestamps))
  IN  [timestamps |-> placed, intervals |-> IntervalsFrom(placed, 1),
       conflicts |-> << >>]

\* build_timeline(timestamps)
build_timeline(timestamps) ==
  LET valid_timestamps ==
        SortByDatetime(SelectSeq(timestamps, LAMBDA t : t.datetime # << >>))
      placed == AddAll(<< >>, valid_timestamps)
  IN  [timestamps |-> placed, intervals |-> IntervalsFrom(placed, 1),
       conflicts |-> << >>]

----------------------------------------------------------------------------
(***************************************************************************)
(* Conflict detection and the logic summary                                *)
(***************************************************************************)
\* after_keywords of _has_logical_order_conflict: 之后 后 后 然后 接着 第二
after_keywords ==
  <<<<"zhi", "hou">>, <<"hou">>, <<"hou">>, <<"ran", "hou">>, <<"jie",
    "zhe">>, <<"di", "er4">>>>

\* continuous_keywords of _should_be_continuous: 后 立即 马上 随即 接着
continuous_keywords ==
  <<<<"hou">>, <<"li", "ji2">>, <<"ma", "shang">>, <<"sui", "ji2">>, <<"jie",
    "zhe">>>>

\* gap_keywords of _should_have_gap: 后 一段时间 过了一会 然后
gap_keywords ==
  <<<<"hou">>, <<"yi1", "duan", "shi2", "jian1">>, <<"guo", "le", "yi1",
    "hui">>, <<"ran", "hou">>>>

\* the keyword list of _identify_critical_timestamps: 报警 投诉 发布 支付 退款 冲突 争执
critical_keywords ==
  <<<<"bao", "jing3">>, <<"tou", "su">>, <<"fa", "bu4">>, <<"zhi1", "fu">>,
    <<"tui", "kuan">>, <<"chong", "tu">>, <<"zheng1", "zhi2">>>>

\* _has_logical_order_conflict without the test for a keyword
_has_logical_order_conflict_any(ts1, ts2) ==
  DtLess(ts1.datetime[1], ts2.datetime[1])

\* _has_logical_order_conflict(ts1, ts2)
_has_logical_order_conflict(ts1, ts2) ==
  \E k \in 1..Len(after_keywords) :
    /\ Contains(ts1.event, after_keywords[k])
    /\ DtLess(ts1.datetime[1], ts2.datetime[1])

\* _should_be_continuous(interval)
_should_be_continuous(interval) ==
  ContainsAny(interval.description, continuous_keywords)

\* _should_have_gap(interval)
_should_have_gap(interval) == ContainsAny(interval.description, gap_keywords)

\* _detect_precision_conflicts(timestamps): one note when more than one
\* precision tier is present
_detect_precision_conflicts(timestamps) ==
  IF Cardinality({timestamps[i].precision : i \in 1..Len(timestamps)}) > 1
  THEN <<"precision_mismatch">> ELSE << >>

\* a Conflict; ids are assigned when the list is assembled
NewConflict(type, severity, tss) ==
  [type |-> type, severity |-> severity, timestamps |-> tss]

RECURSIVE OrderConflicts(_, _, _)
\* the pairwise order loop, from pair (i, j) on
OrderConflicts(ts, i, j) ==
  IF i > Len(ts) THEN << >>
  ELSE IF j > Len(ts) THEN OrderConflicts(ts, i + 1, i + 2)
  ELSE (IF /\ ts[i].datetime # << >> /\ ts[j].datetime # << >>
           /\ _has_logical_order_conflict(ts[i], ts[j])
        THEN <<NewConflict("order", "high", <<ts[i].id, ts[j].id>>)>>
        ELSE << >>)
       \o OrderConflicts(ts, i, j + 1)

RECURSIVE DurationConflicts(_, _)
\* the interval loop, from interval k on; a zero timedelta is falsy
DurationConflicts(ivs, k) ==
  IF k > Len(ivs) THEN << >>
  ELSE LET iv == ivs[k]
           pair == <<iv.start.id, iv.end.id>>
       IN  (IF iv.duration # 0 /\ iv.duration > 24 * 3600
               /\ _should_be_continuous(iv)
            THEN <<NewConflict("duration", "medium", pair)>> ELSE << >>)
           \o
           (IF iv.duration # 0 /\ iv.duration < 60 /\ _should_have_gap(iv)
            THEN <<NewConflict("duration", "low", pair)>> ELSE << >>)
           \o DurationConflicts(ivs, k + 1)

\* detect_time_conflicts(timeline): the conflict list, which is also
\* stored in timeline.conflicts
detect_time_conflicts(timeline) ==
  LET precision_conflicts == _detect_precision_conflicts(timeline.timestamps)
      all == OrderConflicts(timeline.timestamps, 1, 2)
             \o DurationConflicts(timeline.intervals, 1)
             \o [k \in 1..Len(precision_conflicts) |->
                   NewConflict("precision", "low", << >>)]
  IN  [k \in 1..Len(all) |->
         [id |-> k, type |-> all[k].type, severity |-> all[k].severity,
          timestamps |-> all[k].timestamps]]

HighSeverity == {"critical", "high"}

\* _analyze_logic(timeline): logic_valid is cleared as soon as the timeline
\* has any conflict; logic_issues lists only the critical/high ones
_analyze_logic(timeline) ==
  [logic_valid |-> (timeline.conflicts = << >>),
   logic_issues |-> SelectSeq(timeline.conflicts,
                              LAMBDA c : c.severity \in HighSeverity),
   time_sequence |->
     IF \E k \in 1..Len(timeline.conflicts) :
          timeline.conflicts[k].severity \in HighSeverity
     THEN "conflicting" ELSE "normal"]

\* _identify_critical_timestamps(timeline)
_identify_critical_timestamps(timeline) ==
  LET crit == SelectSeq(timeline.timestamps,
                        LAMBDA ts : ContainsAny(ts.event, critical_keywords))
  IN  [k \in 1..Len(crit) |->
         [event |-> crit[k].event, precision |-> crit[k].precision,
          original_text |-> crit[k].text]]

\* _analyze_time_gaps(timeline): the intervals longer than one hour
_analyze_time_gaps(timeline) ==
  IF Len(timeline.timestamps) < 2 THEN << >>
  ELSE LET long == SelectSeq(timeline.intervals,
                             LAMBDA iv : iv.duration # 0 /\ iv.duration > 3600)
       IN  [k \in 1..Len(long) |->
              [duration |-> long[k].duration,
               description |-> long[k].description]]

\* analyze_time_logic(timeline); the rendered strings (time_range,
\* total_duration, recommendations) carry no decision and are left out
analyze_time_logic(timeline) ==
  [timeline_summary |-> [total_timestamps |-> Len(timeline.timestamps)],
   time_gaps |-> _analyze_time_gaps(timeline),
   critical_timestamps |-> _identify_critical_timestamps(timeline),
   time_conflicts |-> timeline.conflicts,
   logic_analysis |-> _analyze_logic(timeline)]

----------------------------------------------------------------------------
(***************************************************************************)
(* CausalReasoner: extraction                                              *)
(***************************************************************************)
\* legal_causal_patterns: the ordered connective patterns
legal_causal_patterns == <<
  \* 因为(.{0,100}?)(所以|因此|因而|故而)
  [re |-> Cat(<<Word(<<"yin", "wei">>), Grp(1, Rep(Dot, 0, 100, FALSE)),
         Grp(2, Alt(<<Word(<<"suo", "yi">>), Word(<<"yin", "ci">>),
         Word(<<"yin", "er">>), Word(<<"gu", "er">>)>>))>>),
   type |-> "direct"],
  \* 由于(.{0,100}?)(导致|引起|造成)
  [re |-> Cat(<<Word(<<"you2", "yu2">>), Grp(1, Rep(Dot, 0, 100, FALSE)),
         Grp(2, Alt(<<Word(<<"dao3", "zhi4">>), Word(<<"yin3", "qi">>),
         Word(<<"zao4", "cheng">>)>>))>>),
   type |-> "direct"],
  \* (.{0,30}?)(造成|引起|致使)(.{0,30}?)
  [re |-> Cat(<<Grp(1, Rep(Dot, 0, 30, FALSE)), Grp(2, Alt(<<Word(<<"zao4",
         "cheng">>), Word(<<"yin3", "qi">>), Word(<<"zhi4", "shi3">>)>>)),
         Grp(3, Rep(Dot, 0, 30, FALSE))>>),
   type |-> "direct"],
  \* (.{0,100}?)(所以|因此|因而)(.{0,100}?)
  [re |-> Cat(<<Grp(1, Rep(Dot, 0, 100, FALSE)), Grp(2, Alt(<<Word(<<"suo",
         "yi">>), Word(<<"yin", "ci">>), Word(<<"yin", "er">>)>>)), Grp(3,
         Rep(Dot, 0, 100, FALSE))>>),
   type |-> "direct"],
  \* (.{0,100}?)(进而|从而)(.{0,100}?)
  [re |-> Cat(<<Grp(1, Rep(Dot, 0, 100, FALSE)), Grp(2, Alt(<<Word(<<"jin4",
         "er">>), Word(<<"cong", "er">>)>>)), Grp(3, Rep(Dot, 0, 100,
         FALSE))>>),
   type |-> "indirect"]
>>

\* the punctuation class removed by _clean_cause_effect: [，。！？；：、,;:!?\n]
CleanPunctuation ==
  {"cjk_comma", "period", "excl", "quest", "semi", "colon", "dun", ",", ";",
   ":", "!", "?", "nl"}

\* the connective words removed by _clean_cause_effect:
\* (因为|由于|所以|因此|因而|导致|引起|造成|使|使得|致使)
CleanConnectives == Grp(1, Alt(<<Word(<<"yin", "wei">>), Word(<<"you2",
    "yu2">>), Word(<<"suo", "yi">>), Word(<<"yin", "ci">>), Word(<<"yin",
    "er">>), Word(<<"dao3", "zhi4">>), Word(<<"yin3", "qi">>), Word(<<"zao4",
    "cheng">>), Lit("shi3"), Word(<<"shi3", "de">>), Word(<<"zhi4",
    "shi3">>)>>))

\* the sentence terminators of _extract_implicit_relations: [。！？\n]
SentenceEnds == {"period", "excl", "quest", "nl"}

\* time_keywords_1 of _has_implicit_causality: 先 开始 首先 最初
time_keywords_1 ==
  <<<<"xian">>, <<"kai", "shi">>, <<"shou", "xian">>, <<"zui", "chu">>>>

\* time_keywords_2 of _has_implicit_causality: 后 接着 然后 随后 最后
time_keywords_2 ==
  <<<<"hou">>, <<"jie", "zhe">>, <<"ran", "hou">>, <<"sui", "hou">>, <<"zui",
    "hou">>>>

\* 争执
W_ZHENGZHI == <<"zheng1", "zhi2">>

\* 冲突
W_CHONGTU == <<"chong", "tu">>

\* 投诉
W_TOUSU == <<"tou", "su">>

\* 网络
W_WANGLUO == <<"wang", "luo">>

\* 发布
W_FABU == <<"fa", "bu4">>

\* 无法确定
UNDETERMINED == <<"wu2", "fa3", "que", "ding">>
\* _clean_cause_effect(text)
_clean_cause_effect(text) ==
  Strip(Sub(CleanConnectives, FilterOut(text, CleanPunctuation)))

\* ExplicitRelation keeping causes and effects of two characters as well
ExplicitRelation_from_two(m, text, type) ==
  IF /\ Len(_clean_cause_effect(Strip(Group(m, text, 1)))) >= 2
     /\ Len(_clean_cause_effect(Strip(Group(m, text, 2)))) >= 2
  THEN <<[cause |-> _clean_cause_effect(Strip(Group(m, text, 1))),
          effect |-> _clean_cause_effect(Strip(Group(m, text, 2))),
          causal_type |-> IF type = "direct" THEN "DIRECT" ELSE "INDIRECT",
          strength |-> "MODERATE", confidence |-> Frac(85, 100)]>>
  ELSE << >>

\* the relation made from one match of an explicit pattern, if it is kept:
\* cause and effect are the first and the second capture group
ExplicitRelation(m, text, type) ==
  LET cause  == _clean_cause_effect(Strip(Group(m, text, 1)))
      effect == _clean_cause_effect(Strip(Group(m, text, 2)))
  IN  IF Len(cause) > 2 /\ Len(effect) > 2
      THEN <<[cause |-> cause, effect |-> effect,
              causal_type |-> IF type = "direct" THEN "DIRECT" ELSE "INDIRECT",
              strength |-> "MODERATE", confidence |-> Frac(85, 100)]>>
      ELSE << >>

RECURSIVE ExplicitFromMatches(_, _, _, _)
ExplicitFromMatches(ms, k, text, type) ==
  IF k > Len(ms) THEN << >>
  ELSE ExplicitRelation(ms[k], text, type)
       \o ExplicitFromMatches(ms, k + 1, text, type)

RECURSIVE ExplicitRelations(_, _)
\* the pattern loop of extract_causal_relations from table entry k on
ExplicitRelations(k, text) ==
  IF k > Len(legal_causal_patterns) THEN << >>
  ELSE ExplicitFromMatches(FindIter(legal_causal_patterns[k].re, text), 1,
                           text, legal_causal_patterns[k].type)
       \o ExplicitRelations(k + 1, text)

\* _has_implicit_causality(sentence1, sentence2)
_has_implicit_causality(sentence1, sentence2) ==
  /\ ContainsAny(sentence1, time_keywords_1)
  /\ ContainsAny(sentence2, time_keywords_2)

RECURSIVE ImplicitFrom(_, _)
\* the adjacent-sentence loop from 1-based index i on
ImplicitFrom(sentences, i) ==
  IF i >= Len(sentences) THEN << >>
  ELSE LET sentence1 == Strip(sentences[i])
           sentence2 == Strip(sentences[i + 1])
       IN  (IF /\ Len(sentence1) >= 5 /\ Len(sentence2) >= 5
               /\ _has_implicit_causality(sentence1, sentence2)
            THEN <<[id |-> <<"causal_implicit", i - 1>>,
                    cause |-> sentence1, effect |-> sentence2,
                    causal_type |-> "INDIRECT", strength |-> "WEAK",
                    confidence |-> Frac(6, 10)]>>
            ELSE << >>)
           \o ImplicitFrom(sentences, i + 1)

\* _extract_implicit_relations(text)
_extract_implicit_relations(text) == ImplicitFrom(Split(text, SentenceEnds), 1)

RECURSIVE DedupFrom(_, _)
\* _deduplicate_relations: the first relation of each (cause, effect) pair
DedupFrom(relations, seen) ==
  IF relations = << >> THEN << >>
  ELSE LET rel == Head(relations)
           key == <<rel.cause, rel.effect>>
       IN  IF key \in seen THEN DedupFrom(Tail(relations), seen)
           ELSE <<rel>> \o DedupFrom(Tail(relations), seen \cup {key})

_deduplicate_relations(relations) == DedupFrom(relations, {})

\* extract_causal_relations(text)
extract_causal_relations(text) ==
  LET explicit == ExplicitRelations(1, text)
      numbered == [k \in 1..Len(explicit) |->
                     [id |-> <<"causal", k>>,
                      cause |-> explicit[k].cause,
                      effect |-> explicit[k].effect,
                      causal_type |-> explicit[k].causal_type,
                      strength |-> explicit[k].strength,
                      confidence |-> explicit[k].confidence]]
  IN  _deduplicate_relations(numbered \o _extract_implicit_relations(text))

----------------------------------------------------------------------------
(***************************************************************************)
(* CausalReasoner: chains, gaps, root cause, strength                      *)
(***************************************************************************)
RangeOf(s) == {s[k] : k \in 1..Len(s)}

\* _build_causal_graph(relations): each cause and effect is a key, mapped
\* to the effects of the relations it causes, in list order
_build_causal_graph(relations) ==
  LET nodes == {relations[k].cause : k \in 1..Len(relations)}
               \cup {relations[k].effect : k \in 1..Len(relations)}
      EffectsOf(n) ==
        LET rs == SelectSeq(relations, LAMBDA r : r.cause = n)
        IN  [k \in 1..Len(rs) |-> rs[k].effect]
  IN  [n \in nodes |-> EffectsOf(n)]

RECURSIVE _trace_chain(_, _, _), TraceNext(_, _, _, _)
\* _trace_chain(start, graph, visited): the nodes reached depth-first and
\* the visited set as the call leaves it (the set is shared by the
\* recursive calls)
_trace_chain(start, graph, visited) ==
  IF start \in visited \/ start \notin DOMAIN graph
  THEN [chain |-> <<start>>, visited |-> visited]
  ELSE TraceNext(graph[start], 1, graph,
                 [chain |-> <<start>>, visited |-> visited \cup {start}])

\* the loop over graph[start] from its k-th entry on
TraceNext(nexts, k, graph, acc) ==
  IF k > Len(nexts) THEN acc
  ELSE IF nexts[k] \in acc.visited THEN TraceNext(nexts, k + 1, graph, acc)
  ELSE LET sub == _trace_chain(nexts[k], graph, acc.visited)
       IN  TraceNext(nexts, k + 1, graph,
                     [chain |-> acc.chain \o sub.chain,
                      visited |-> sub.visited])

\* add_relation taking the cause of every relation added as the root cause
add_relation_last_root(chain, relation) ==
  [chain EXCEPT !.relations = Append(@, relation),
                !.root_cause = relation.cause,
                !.final_effect = relation.effect]

\* CausalChain.add_relation
add_relation(chain, relation) ==
  [chain EXCEPT !.relations = Append(@, relation),
                !.root_cause = IF @ = << >> THEN relation.cause ELSE @,
                !.final_effect = relation.effect]

RECURSIVE SumConfidence(_)
SumConfidence(rels) ==
  IF rels = << >> THEN 0 ELSE Head(rels).confidence + SumConfidence(Tail(rels))

\* _calculate_chain_completeness(chain): the mean confidence
_calculate_chain_completeness(chain) ==
  IF chain.relations = << >> THEN 0
  ELSE SumConfidence(chain.relations) \div Len(chain.relations)

RECURSIVE ChainGapsFrom(_, _)
\* _identify_chain_gaps: one entry for each adjacent pair of relations
\* whose effect and cause differ; an entry keeps the two strings that the
\* description is built from
ChainGapsFrom(rels, i) ==
  IF i >= Len(rels) THEN << >>
  ELSE (IF rels[i].effect # rels[i + 1].cause
        THEN <<[from |-> rels[i].effect, to |-> rels[i + 1].cause]>>
        ELSE << >>)
       \o ChainGapsFrom(rels, i + 1)

_identify_chain_gaps(chain) == ChainGapsFrom(chain.relations, 1)

RECURSIVE FirstRelation(_, _, _)
\* the first relation with the given cause and effect, if any
FirstRelation(relations, cause, effect) ==
  IF relations = << >> THEN << >>
  ELSE IF Head(relations).cause = cause /\ Head(relations).effect = effect
  THEN <<Head(relations)>>
  ELSE FirstRelation(Tail(relations), cause, effect)

RECURSIVE AddPairs(_, _, _, _)
\* the loop of _create_causal_chain over consecutive nodes from index i on
AddPairs(chain, nodes, i, relations) ==
  IF i >= Len(nodes) THEN chain
  ELSE LET rel == FirstRelation(relations, nodes[i], nodes[i + 1])
       IN  AddPairs(IF rel = << >> THEN chain ELSE add_relation(chain, rel[1]),
                    nodes, i + 1, relations)

\* _create_causal_chain(nodes, relations)
_create_causal_chain(nodes, relations) ==
  LET empty == [id |-> <<"chain", Slice(nodes[1], 0, 10)>>,
                relations |-> << >>, root_cause |-> << >>,
                final_effect |-> << >>, completeness |-> 0, gaps |-> << >>]
      filled == AddPairs(empty, nodes, 1, relations)
  IN  [filled EXCEPT !.completeness = _calculate_chain_completeness(filled),
                     !.gaps = _identify_chain_gaps(filled)]

RECURSIVE ChainsFrom(_, _, _, _)
\* the loop of build_causal_chain from relation k on
ChainsFrom(relations, k, graph, visited) ==
  IF k > Len(relations) THEN << >>
  ELSE IF relations[k].cause \in visited
  THEN ChainsFrom(relations, k + 1, graph, visited)
  ELSE LET chain == _trace_chain(relations[k].cause, graph, {}).chain
       IN  (IF Len(chain) > 1
            THEN <<_create_causal_chain(chain, relations)>> ELSE << >>)
           \o ChainsFrom(relations, k + 1, graph, visited \cup RangeOf(chain))

\* build_causal_chain(relations)
build_causal_chain(relations) ==
  IF relations = << >> THEN << >>
  ELSE ChainsFrom(relations, 1, _build_causal_graph(relations), {})

\* _infer_missing_causes(from_event, to_event): the candidate lists are
\* named by the keyword that triggers them
_infer_missing_causes(from_event, to_event) ==
  (IF Contains(to_event, W_ZHENGZHI) \/ Contains(to_event, W_CHONGTU)
   THEN <<"emotional", "verbal_conflict", "misconduct", "misunderstanding">>
   ELSE << >>)
  \o
  (IF Contains(to_event, W_TOUSU)
   THEN <<"rights_harmed", "service", "expectation", "unresolved">>
   ELSE << >>)

\* _infer_missing_effects(from_event)
_infer_missing_effects(from_event) ==
  (IF Contains(from_event, W_TOUSU)
   THEN <<"administrative", "media", "public_opinion", "reputation">>
   ELSE << >>)
  \o
  (IF Contains(from_event, W_CHONGTU)
   THEN <<"police_report", "physical_conflict", "injury", "property_loss">>
   ELSE << >>)

\* detect_causal_gaps(chain).  gap_id is advanced only in the loop over the
\* chain's own gaps; the root-cause and final-effect entries both use the
\* value it has after that loop.
detect_causal_gaps(chain) ==
  LET n == Len(chain.gaps)
      intermediate ==
        [k \in 1..n |->
           [id |-> k, from_event |-> Strip(chain.gaps[k].from),
            to_event |-> Strip(chain.gaps[k].to),
            gap_type |-> "missing_intermediate",
            possible_causes |->
              _infer_missing_causes(Strip(chain.gaps[k].from),
                                    Strip(chain.gaps[k].to))]]
      first_relation == chain.relations[1]
      last_relation  == chain.relations[Len(chain.relations)]
  IN  IF chain.relations = << >> THEN intermediate
      ELSE intermediate
           \o (IF Len(first_relation.cause) < 10
               THEN <<[id |-> n + 1, from_event |-> <<"?">>,
                       to_event |-> first_relation.cause,
                       gap_type |-> "missing_cause",
                       possible_causes |->
                         _infer_missing_causes(<<"?">>, first_relation.cause)]>>
               ELSE << >>)
           \o (IF Len(last_relation.effect) < 10
               THEN <<[id |-> n + 1, from_event |-> last_relation.effect,
                       to_event |-> <<"?">>,
                       gap_type |-> "missing_effect",
                       possible_causes |->
                         _infer_missing_effects(last_relation.effect)]>>
               ELSE << >>)

RECURSIVE GapsOfChains(_)
GapsOfChains(chains) ==
  IF chains = << >> THEN << >>
  ELSE detect_causal_gaps(Head(chains)) \o GapsOfChains(Tail(chains))

RECURSIVE DistinctFrom(_, _)
\* the distinct strings of a list in order of first occurrence (dict keys)
DistinctFrom(s, seen) ==
  IF s = << >> THEN << >>
  ELSE IF Head(s) \in seen THEN DistinctFrom(Tail(s), seen)
  ELSE <<Head(s)>> \o DistinctFrom(Tail(s), seen \cup {Head(s)})

CountOf(s, x) == Cardinality({k \in 1..Len(s) : s[k] = x})

RECURSIVE InsertByCount(_, _, _)
\* x placed after every element of acc whose count is >= its own
InsertByCount(acc, x, all) ==
  IF acc = << >> THEN <<x>>
  ELSE IF CountOf(all, x) > CountOf(all, Head(acc)) THEN <<x>> \o acc
  ELSE <<Head(acc)>> \o InsertByCount(Tail(acc), x, all)

RECURSIVE RankFrom(_, _, _)
RankFrom(keys, acc, all) ==
  IF keys = << >> THEN acc
  ELSE RankFrom(Tail(keys), InsertByCount(acc, Head(keys), all), all)

\* the five most frequent strings of a list, most frequent first, ties in
\* order of first occurrence (sorted(..., reverse=True) is stable)
TopFive(all) ==
  LET ranked == RankFrom(DistinctFrom(all, {}), << >>, all)
  IN  SubSeq(ranked, 1, Min2(5, Len(ranked)))

\* _identify_key_causes(relations)
_identify_key_causes(relations) ==
  TopFive([k \in 1..Len(relations) |-> relations[k].cause])

\* _identify_key_effects(relations)
_identify_key_effects(relations) ==
  TopFive([k \in 1..Len(relations) |-> relations[k].effect])

\* the first root cause, whatever its length
FirstRootOf(strs) == strs[1]

\* min(root_causes, key=len): the first of the shortest
ShortestOf(strs) ==
  strs[CHOOSE i \in 1..Len(strs) :
         /\ \A j \in 1..Len(strs) : Len(strs[i]) <= Len(strs[j])
         /\ \A j \in 1..(i - 1) : Len(strs[j]) > Len(strs[i])]

\* _analyze_root_cause giving an undetermined root cause the confidence 0.5
_analyze_root_cause_half(chains) ==
  [root_cause |-> UNDETERMINED, confidence |-> Frac(5, 10),
   other_possibilities |-> << >>]

\* _analyze_root_cause(chains); other_possibilities is empty where the
\* program's dict has no such key
_analyze_root_cause(chains) ==
  LET with_root   == SelectSeq(chains, LAMBDA c : c.root_cause # << >>)
      root_causes == [k \in 1..Len(with_root) |-> with_root[k].root_cause]
  IN  IF chains = << >> \/ root_causes = << >>
      THEN [root_cause |-> UNDETERMINED, confidence |-> 0,
            other_possibilities |-> << >>]
      ELSE IF Len(root_causes) = 1
      THEN [root_cause |-> root_causes[1], confidence |-> Frac(9, 10),
            other_possibilities |-> << >>]
      ELSE [root_cause |-> ShortestOf(root_causes),
            confidence |-> Frac(7, 10),
            other_possibilities |-> root_causes]

\* _generate_alternative_explanations(text, relations): the explanations
\* are named by their trigger
_generate_alternative_explanations(text, relations) ==
  (IF Contains(text, W_TOUSU) THEN <<"complaint">> ELSE << >>)
  \o (IF Contains(text, W_ZHENGZHI) \/ Contains(text, W_CHONGTU)
      THEN <<"dispute">> ELSE << >>)
  \o (IF Contains(text, W_WANGLUO) /\ Contains(text, W_FABU)
      THEN <<"publication">> ELSE << >>)
  \o (IF Len(relations) > 0 THEN <<"intermediate_factor">> ELSE << >>)

\* the CausalAnalysis assembled from the relations and the chains
CausalAnalysis(text, relations, chains) ==
  [causal_relations |-> relations,
   causal_chains |-> chains,
   causal_gaps |-> GapsOfChains(chains),
   key_causes |-> _identify_key_causes(relations),
   key_effects |-> _identify_key_effects(relations),
   root_cause_analysis |-> _analyze_root_cause(chains),
   alternative_explanations |->
     _generate_alternative_explanations(text, relations)]

\* analyze_causality once the relations are extracted
AnalyzeRelations(text, relations) ==
  CausalAnalysis(text, relations, build_causal_chain(relations))

\* analyze_causality(text)
analyze_causality(text) ==
  AnalyzeRelations(text, extract_causal_relations(text))

\* type_weights.get(causal_type, 0.5)
type_weights(causal_type) ==
  CASE causal_type = "DIRECT" -> Frac(9, 10)
    [] causal_type = "INDIRECT" -> Frac(6, 10)
    [] causal_type = "NECESSARY" -> Frac(7, 10)
    [] causal_type = "SUFFICIENT" -> Frac(85, 100)
    [] causal_type = "CONTRIBUTORY" -> Frac(5, 10)
    [] OTHER -> Frac(5, 10)

\* strength_weights.get(strength, 0.1)
strength_weights(strength) ==
  CASE strength = "STRONG" -> Frac(3, 10)
    [] strength = "MODERATE" -> Frac(2, 10)
    [] strength = "WEAK" -> Frac(1, 10)
    [] OTHER -> Frac(1, 10)

\* evaluate_causal_strength without min(1.0, ...)
evaluate_causal_strength_unclamped(relation) ==
  Mul(type_weights(relation.causal_type) + strength_weights(relation.strength),
      relation.confidence)

\* evaluate_causal_strength(relation)
evaluate_causal_strength(relation) ==
  LET score == Mul(type_weights(relation.causal_type)
                   + strength_weights(relation.strength),
                   relation.confidence)
  IN  Min2(score, Scale)

----------------------------------------------------------------------------
(***************************************************************************)
(* DeepReasoner                                                            *)
(***************************************************************************)
\* conflict_pairs of _has_obvious_conflict: (是,不是) (有,没有) (同意,不同意) (认可,不认可) (支付,未支付) (收到,未收到)
conflict_pairs ==
  <<<<<<"shi4">>, <<"bu", "shi4">>>>, <<<<"you">>, <<"mei", "you">>>>,
    <<<<"tong", "yi4">>, <<"bu", "tong", "yi4">>>>, <<<<"ren", "ke3">>,
    <<"bu", "ren", "ke3">>>>, <<<<"zhi1", "fu">>, <<"wei4", "zhi1", "fu">>>>,
    <<<<"shou1", "dao">>, <<"wei4", "shou1", "dao">>>>>>

\* conflict_keywords of _has_evidence_conflict: (是,不是) (存在,不存在) (真实,虚假) (正确,错误)
conflict_keywords ==
  <<<<<<"shi4">>, <<"bu", "shi4">>>>, <<<<"cunz", "zai">>, <<"bu", "cunz",
    "zai">>>>, <<<<"zhen", "shi5">>, <<"xu", "jia">>>>, <<<<"zheng4",
    "que">>, <<"cuo", "wu4">>>>>>

\* premeditation_keywords: 准备 计划 安排 设计 预谋 策划
premeditation_keywords ==
  <<<<"zhun", "bei">>, <<"ji4", "hua">>, <<"an", "pai">>, <<"she", "ji4">>,
    <<"yu4", "mou">>, <<"ce", "hua">>>>

\* planning_keywords: 随即 立刻 立即 马上 紧接着
planning_keywords ==
  <<<<"sui", "ji2">>, <<"li", "ke4">>, <<"li", "ji2">>, <<"ma", "shang">>,
    <<"jin3", "jie", "zhe">>>>

\* calm_keywords: 冷静 拍照 录像 取证 报警
calm_keywords ==
  <<<<"leng", "jing">>, <<"pai1", "zhao">>, <<"lu", "xiang">>, <<"qu3",
    "zheng">>, <<"bao", "jing3">>>>

\* 之前
W_ZHIQIAN == <<"zhi", "qian">>

\* the sentence separator of _detect_fact_conflicts: 。
FullStop == {"period"}
\* the summary _analyze_time_series returns
TimeSummary(tss, analysis) ==
  [timestamps_count |-> Len(tss),
   timeline |-> analysis.timeline_summary,
   time_gaps |-> analysis.time_gaps,
   critical_timestamps |-> analysis.critical_timestamps,
   time_conflicts |->
     [k \in 1..Len(analysis.time_conflicts) |->
        [type |-> analysis.time_conflicts[k].type,
         severity |-> analysis.time_conflicts[k].severity]],
   logic_valid |-> analysis.logic_analysis.logic_valid,
   logic_issues |-> analysis.logic_analysis.logic_issues]

\* build_timeline followed by detect_time_conflicts, which stores its
\* result in the timeline
WithConflicts(built) ==
  [built EXCEPT !.conflicts = detect_time_conflicts(built)]

\* _analyze_time_series once extract_timestamps has returned ex
SeriesOf(ex) ==
  IF ex.raised THEN [raised |-> TRUE, value |-> << >>]
  ELSE [raised |-> FALSE,
        value |->
          <<TimeSummary(ex.timestamps,
                        analyze_time_logic(
                          WithConflicts(build_timeline(ex.timestamps))))>>]

\* _analyze_time_series(text): [raised, value]; an exception raised by
\* extract_timestamps is not caught here
_analyze_time_series(text, now) == SeriesOf(extract_timestamps(text, now))

\* the summary _analyze_causality returns
CausalSummary(analysis) ==
      [relations_count |-> Len(analysis.causal_relations),
       chains_count |-> Len(analysis.causal_chains),
       gaps_count |-> Len(analysis.causal_gaps),
       root_cause |-> analysis.root_cause_analysis.root_cause,
       root_cause_confidence |-> analysis.root_cause_analysis.confidence,
       key_causes |-> analysis.key_causes,
       key_effects |-> analysis.key_effects,
       alternative_explanations |-> analysis.alternative_explanations]

\* _analyze_causality(text)
_analyze_causality(text) == CausalSummary(analyze_causality(text))

\* _has_obvious_conflict testing each pair in one direction only
_has_obvious_conflict_forward(sentence1, sentence2) ==
  \E k \in 1..Len(conflict_pairs) :
    /\ Contains(sentence1, conflict_pairs[k][1])
    /\ Contains(sentence2, conflict_pairs[k][2])

\* _has_obvious_conflict(sentence1, sentence2)
_has_obvious_conflict(sentence1, sentence2) ==
  \E k \in 1..Len(conflict_pairs) :
    LET kw1 == conflict_pairs[k][1]
        kw2 == conflict_pairs[k][2]
    IN  \/ Contains(sentence1, kw1) /\ Contains(sentence2, kw2)
        \/ Contains(sentence1, kw2) /\ Contains(sentence2, kw1)

RECURSIVE PairsFrom(_, _, _)
\* the index pairs (i, j), i < j, of a list of n items in loop order,
\* 0-based as the program reports them
PairsFrom(n, i, j) ==
  IF i >= n THEN << >>
  ELSE IF j >= n THEN PairsFrom(n, i + 1, i + 2)
  ELSE <<<<i, j>>>> \o PairsFrom(n, i, j + 1)

\* _detect_fact_conflicts(text)
_detect_fact_conflicts(text) ==
  LET pieces    == Split(text, FullStop)
      stripped  == [k \in 1..Len(pieces) |-> Strip(pieces[k])]
      sentences == SelectSeq(stripped, LAMBDA s : s # << >>)
      hits == SelectSeq(PairsFrom(Len(sentences), 0, 1),
                        LAMBDA p : _has_obvious_conflict(sentences[p[1] + 1],
                                                         sentences[p[2] + 1]))
  IN  [k \in 1..Len(hits) |->
         [type |-> "fact", severity |-> "medium", items |-> hits[k]]]

\* _has_evidence_conflict(ev1, ev2): the first keyword is looked for in
\* ev1 only and the second in ev2 only
_has_evidence_conflict(ev1, ev2) ==
  \E k \in 1..Len(conflict_keywords) :
    /\ Contains(ev1.description, conflict_keywords[k][1])
    /\ Contains(ev2.description, conflict_keywords[k][2])

\* _detect_evidence_conflicts(evidences)
_detect_evidence_conflicts(evidences) ==
  LET hits == SelectSeq(PairsFrom(Len(evidences), 0, 1),
                        LAMBDA p : _has_evidence_conflict(evidences[p[1] + 1],
                                                          evidences[p[2] + 1]))
  IN  [k \in 1..Len(hits) |->
         [type |-> "evidence", severity |-> "high", items |-> hits[k]]]

\* _detect_conflicts(text, evidences)
_detect_conflicts(text, evidences) ==
  LET fact_conflicts == _detect_fact_conflicts(text)
      conflicts == fact_conflicts
                   \o (IF evidences # << >>
                       THEN _detect_evidence_conflicts(evidences) ELSE << >>)
  IN  [total_conflicts |-> Len(conflicts),
       fact_conflicts |-> fact_conflicts,
       evidence_conflicts |->
         SelectSeq(conflicts, LAMBDA c : c.type = "evidence")]

\* _calculate_logical_consistency(text, evidences)
_calculate_logical_consistency(text, evidences) ==
  Max2(0, Scale - _detect_conflicts(text, evidences).total_conflicts
                  * Frac(1, 10))

\* _calculate_logical_completeness(text)
_calculate_logical_completeness(analysis) ==
  LET base == Min2(Scale, analysis.chains_count * Frac(3, 10))
  IN  IF analysis.chains_count = 0 THEN Frac(5, 10)
      ELSE Max2(0, IF analysis.gaps_count > 0
                   THEN base - analysis.gaps_count * Frac(1, 10)
                   ELSE base)

\* the dictionary _analyze_logic returns, from the verdict of
\* _check_time_logic_valid, the summary _check_causal_logic_valid and
\* _calculate_logical_completeness each obtain from _analyze_causality(text),
\* and the consistency score
LogicalAnalysis(time_ok, analysis, consistency) ==
  LET causal_ok == analysis.gaps_count = 0
  IN  [logic_valid |-> time_ok /\ causal_ok,
       logic_issues |->
         (IF time_ok THEN << >> ELSE <<"time_logic">>)
         \o (IF causal_ok THEN << >> ELSE <<"causal_logic">>),
       logical_consistency |-> consistency,
       logical_completeness |-> _calculate_logical_completeness(analysis)]

\* _analyze_logic given the outcome of the second time analysis
LogicalOutcome(time, analysis, consistency) ==
  IF time.raised THEN [raised |-> TRUE, value |-> << >>]
  ELSE [raised |-> FALSE,
        value |-> <<LogicalAnalysis(time.value[1].logic_valid, analysis,
                                    consistency)>>]

\* _analyze_logic(text, evidences): [raised, value]; the time analysis is
\* run again on the same text by _check_time_logic_valid
DeepReasoner_analyze_logic(text, evidences, now) ==
  LogicalOutcome(_analyze_time_series(text, now), _analyze_causality(text),
                 _calculate_logical_consistency(text, evidences))

\* the indicators with the root-cause confidence tested by >= 0.7
PremeditationIndicators_at_least(text, time_analysis, causal_analysis) ==
  (IF /\ time_analysis.timestamps_count > 0
      /\ \E k \in 1..Len(time_analysis.critical_timestamps) :
           Contains(time_analysis.critical_timestamps[k].event, W_ZHIQIAN)
   THEN <<[name |-> "preparation_time", weight |-> Frac(2, 10)]>> ELSE << >>)
  \o
  (IF /\ causal_analysis.chains_count > 0
      /\ causal_analysis.root_cause_confidence >= Frac(7, 10)
   THEN <<[name |-> "clear_causal_chain", weight |-> Frac(2, 10)]>> ELSE << >>)
  \o
  (IF ContainsAny(text, premeditation_keywords)
   THEN <<[name |-> "premeditation_keywords", weight |-> Frac(3, 10)]>>
   ELSE << >>)
  \o
  (IF ContainsAny(text, planning_keywords)
   THEN <<[name |-> "planning_keywords", weight |-> Frac(2, 10)]>> ELSE << >>)
  \o
  (IF ContainsAny(text, calm_keywords)
   THEN <<[name |-> "calm_keywords", weight |-> Frac(2, 10)]>> ELSE << >>)

\* the five indicators of _analyze_premeditation, in the order tested
PremeditationIndicators(text, time_analysis, causal_analysis) ==
  (IF /\ time_analysis.timestamps_count > 0
      /\ \E k \in 1..Len(time_analysis.critical_timestamps) :
           Contains(time_analysis.critical_timestamps[k].event, W_ZHIQIAN)
   THEN <<[name |-> "preparation_time", weight |-> Frac(2, 10)]>> ELSE << >>)
  \o
  (IF /\ causal_analysis.chains_count > 0
      /\ causal_analysis.root_cause_confidence > Frac(7, 10)
   THEN <<[name |-> "clear_causal_chain", weight |-> Frac(2, 10)]>> ELSE << >>)
  \o
  (IF ContainsAny(text, premeditation_keywords)
   THEN <<[name |-> "premeditation_keywords", weight |-> Frac(3, 10)]>>
   ELSE << >>)
  \o
  (IF ContainsAny(text, planning_keywords)
   THEN <<[name |-> "planning_keywords", weight |-> Frac(2, 10)]>> ELSE << >>)
  \o
  (IF ContainsAny(text, calm_keywords)
   THEN <<[name |-> "calm_keywords", weight |-> Frac(2, 10)]>> ELSE << >>)

RECURSIVE SumWeights(_)
SumWeights(s) == IF s = << >> THEN 0 ELSE Head(s).weight + SumWeights(Tail(s))

\* _analyze_premeditation without min(1.0, ...) on the score
_analyze_premeditation_unclamped(text, time_analysis, causal_analysis) ==
  [is_premeditated |-> FALSE,
   premeditation_score |->
     SumWeights(PremeditationIndicators(text, time_analysis, causal_analysis)),
   indicators |->
     [k \in 1..Len(PremeditationIndicators(text, time_analysis,
                                            causal_analysis)) |->
        PremeditationIndicators(text, time_analysis, causal_analysis)[k].name],
   reasoning |-> "not_premeditated"]

\* _analyze_premeditation(text, time_analysis, causal_analysis)
_analyze_premeditation(text, time_analysis, causal_analysis) ==
  LET fired == PremeditationIndicators(text, time_analysis, causal_analysis)
      score == SumWeights(fired)
  IN  [is_premeditated |-> score >= Frac(5, 10),
       premeditation_score |-> Min2(Scale, score),
       indicators |-> [k \in 1..Len(fired) |-> fired[k].name],
       reasoning |-> IF score >= Frac(7, 10) THEN "highly_premeditated"
                     ELSE IF score >= Frac(5, 10) THEN "possibly_premeditated"
                     ELSE IF score >= Frac(3, 10) THEN "unlikely_premeditated"
                     ELSE "not_premeditated"]

\* the evidence-type taxonomy; the program names DOCUMENT, ELECTRONIC and
\* AUDIO_VIDEO, the rest of the external enumeration is one further member
EvidenceTypes == {"DOCUMENT", "ELECTRONIC", "AUDIO_VIDEO", "WITNESS"}

\* the types _identify_evidence_gaps requires, in the order it tests them
required_types == <<"DOCUMENT", "ELECTRONIC", "AUDIO_VIDEO">>

\* _calculate_evidence_completeness without min(1.0, ...)
_calculate_evidence_completeness_unclamped(evidences) ==
  Frac(Cardinality({evidences[k].evidence_type : k \in 1..Len(evidences)}),
       3)

\* _calculate_evidence_completeness(evidences)
_calculate_evidence_completeness(evidences) ==
  LET present_types ==
        Cardinality({evidences[k].evidence_type : k \in 1..Len(evidences)})
  IN  Min2(Scale, Frac(present_types, 3))

RECURSIVE SumEvidenceWeight(_)
SumEvidenceWeight(evidences) ==
  IF evidences = << >> THEN 0
  ELSE Head(evidences).weight + SumEvidenceWeight(Tail(evidences))

\* _calculate_evidence_consistency returning the sum of the weights
_calculate_evidence_consistency_sum(evidences) == SumEvidenceWeight(evidences)

\* _calculate_evidence_consistency(evidences): the mean weight
_calculate_evidence_consistency(evidences) ==
  IF evidences = << >> THEN 0
  ELSE SumEvidenceWeight(evidences) \div Len(evidences)

\* _identify_evidence_gaps requiring DOCUMENT and ELECTRONIC only
_identify_evidence_gaps_two(evidences) ==
  [k \in 1..Len(SelectSeq(SubSeq(required_types, 1, 2),
                          LAMBDA t : \A i \in 1..Len(evidences) :
                                       evidences[i].evidence_type # t)) |->
     <<"missing",
       SelectSeq(SubSeq(required_types, 1, 2),
                 LAMBDA t : \A i \in 1..Len(evidences) :
                              evidences[i].evidence_type # t)[k]>>]
  \o (IF Len(evidences) < 3 THEN <<<<"too_few", "">>>> ELSE << >>)

\* _identify_evidence_gaps(evidences)
_identify_evidence_gaps(evidences) ==
  LET present_types == {evidences[k].evidence_type : k \in 1..Len(evidences)}
      missing == SelectSeq(required_types, LAMBDA t : t \notin present_types)
  IN  [k \in 1..Len(missing) |-> <<"missing", missing[k]>>]
      \o (IF Len(evidences) < 3 THEN <<<<"too_few", "">>>> ELSE << >>)

\* _generate_evidence_suggestions(evidences, gaps)
_generate_evidence_suggestions(evidences, gaps) ==
  IF gaps # << >>
  THEN <<<<"supplement", "">>>> \o gaps
  ELSE <<<<"chain_complete", "">>>>

\* _analyze_evidence_chain without the early return for no evidence
_analyze_evidence_chain_unguarded(evidences) ==
  [completeness |-> _calculate_evidence_completeness(evidences),
   consistency |-> _calculate_evidence_consistency(evidences),
   strength |-> "weak",
   gaps |-> _identify_evidence_gaps(evidences),
   suggestions |->
     _generate_evidence_suggestions(evidences,
                                    _identify_evidence_gaps(evidences))]

\* _analyze_evidence_chain(evidences)
_analyze_evidence_chain(evidences) ==
  LET completeness == _calculate_evidence_completeness(evidences)
      consistency  == _calculate_evidence_consistency(evidences)
      gaps         == _identify_evidence_gaps(evidences)
  IN  IF evidences = << >>
      THEN [completeness |-> 0, consistency |-> 0, strength |-> "weak",
            gaps |-> <<<<"no_evidence", "">>>>,
            suggestions |-> <<<<"supply_evidence", "">>>>]
      ELSE [completeness |-> completeness, consistency |-> consistency,
            strength |->
              IF completeness >= Frac(8, 10) /\ consistency >= Frac(8, 10)
              THEN "strong"
              ELSE IF completeness >= Frac(6, 10) /\ consistency >= Frac(6, 10)
              THEN "moderate" ELSE "weak",
            gaps |-> gaps,
            suggestions |-> _generate_evidence_suggestions(evidences, gaps)]

\* _generate_recommendations(result) of DeepReasoner: each advisory is
\* named by its trigger
DeepReasoner_generate_recommendations(result) ==
  LET recommendations ==
        (IF result.time_analysis.logic_issues # << >>
         THEN <<<<"time_logic", "">>>> ELSE << >>)
        \o (IF result.causal_analysis.gaps_count > 0
            THEN <<<<"causal_gaps", "">>>> ELSE << >>)
        \o (IF result.conflict_analysis.total_conflicts > 0
            THEN <<<<"contradictions", "">>>> ELSE << >>)
        \o (IF ~result.logical_analysis.logic_valid
            THEN <<<<"logic_invalid", "">>>> ELSE << >>)
        \o (IF /\ result.premeditation_analysis.is_premeditated
               /\ result.premeditation_analysis.premeditation_score
                    >= Frac(7, 10)
            THEN <<<<"highly_premeditated", "">>>> ELSE << >>)
        \o result.evidence_chain.suggestions
  IN  IF recommendations = << >> THEN <<<<"no_issues", "">>>>
      ELSE Append(recommendations, <<"investigate_further", "">>)

\* evidence_strength_weights with 0.10 for weak
evidence_strength_weights_weak(strength) ==
  CASE strength = "strong" -> Frac(25, 100)
    [] strength = "moderate" -> Frac(15, 100)
    [] OTHER -> Frac(10, 100)

\* strength_weights.get(evidence_strength, 0.05) of _calculate_confidence
evidence_strength_weights(strength) ==
  CASE strength = "strong" -> Frac(25, 100)
    [] strength = "moderate" -> Frac(15, 100)
    [] strength = "weak" -> Frac(5, 100)
    [] OTHER -> Frac(5, 100)

\* _calculate_confidence(result)
_calculate_confidence(result) ==
  LET confidence ==
        (IF result.time_analysis.logic_valid
         THEN Frac(25, 100) ELSE Frac(1, 10))
        + Mul(Frac(25, 100), result.causal_analysis.root_cause_confidence)
        + Mul(Frac(25, 100), result.logical_analysis.logical_consistency)
        + evidence_strength_weights(result.evidence_chain.strength)
  IN  Min2(Scale, confidence)

----------------------------------------------------------------------------
(***************************************************************************)
(* Inputs.  A text is the concatenation of at most MaxFrags fragments; an  *)
(* evidence list has at most MaxEvidence items.                            *)
(***************************************************************************)
\* 2024年5月1日10点30分
F_DATETIME ==
  <<"2", "0", "2", "4", "nian", "5", "yue", "1", "ri", "1", "0", "dian", "3",
    "0", "fen">>

\* 2024年13月45日
F_BAD_DATE ==
  <<"2", "0", "2", "4", "nian", "1", "3", "yue", "4", "5", "ri">>

\* 3天前
F_DAYS_AGO ==
  <<"3", "tian", "qian">>

\* 5月32日
F_BAD_DAY ==
  <<"5", "yue", "3", "2", "ri">>

\* 因为下雨,
F_BECAUSE ==
  <<"yin", "wei", "xia", "yu3", ",">>

\* 所以迟到。
F_SO ==
  <<"suo", "yi", "chi", "dao", "period">>

\* 首先他来到店里。然后他走了。
F_FIRST_THEN ==
  <<"shou", "xian", "ta", "lai", "dao", "dian4", "li3", "period", "ran",
    "hou", "ta", "zou", "le", "period">>

\* 最初他计划报警。最后他立即走开了。
F_START_LAST ==
  <<"zui", "chu", "ta", "ji4", "hua", "bao", "jing3", "period", "zui", "hou",
    "ta", "li", "ji2", "zou", "kai", "le", "period">>

\* 他是股东。
F_IS ==
  <<"ta", "shi4", "gd", "dong", "period">>

\* 他不是股东。
F_IS_NOT ==
  <<"ta", "bu", "shi4", "gd", "dong", "period">>

\* the fragments the texts given to reason are made of
Fragments ==
  <<F_DATETIME, F_BAD_DATE, F_DAYS_AGO, F_BAD_DAY, F_BECAUSE, F_SO,
    F_FIRST_THEN, F_START_LAST, F_IS, F_IS_NOT>>

RECURSIVE FragmentLists(_)
\* the lists of at most n fragment indexes
FragmentLists(n) ==
  IF n = 0 THEN {<< >>}
  ELSE LET shorter == FragmentLists(n - 1)
       IN  shorter \cup {Append(l, k) : l \in shorter, k \in 1..Len(Fragments)}

TextOf(l) == Concat([k \in 1..Len(l) |-> Fragments[l[k]]])

Texts == {TextOf(l) : l \in FragmentLists(MaxFrags)}

\* the Evidence items a caller may supply: [name, description,
\* evidence_type, weight] with weight in [0, 1]
EvidenceItems ==
  {[name |-> "contract", description |-> <<"shi4", "zhen", "shi5">>,
    evidence_type |-> "DOCUMENT", weight |-> Scale],
   [name |-> "chat_log", description |-> <<"bu", "shi4", "zhen", "shi5">>,
    evidence_type |-> "ELECTRONIC", weight |-> Scale],
   [name |-> "recording", description |-> << >>,
    evidence_type |-> "AUDIO_VIDEO", weight |-> Frac(1, 2)]}

RECURSIVE EvidenceLists(_)
\* the lists of at most n different evidence items
EvidenceLists(n) ==
  IF n = 0 THEN {<< >>}
  ELSE LET shorter == EvidenceLists(n - 1)
       IN  shorter \cup
           UNION {{Append(l, e) : e \in {x \in EvidenceItems :
                                           \A k \in 1..Len(l) : l[k] # x}} :
                  l \in shorter}

\* the readings of the clock (datetime.now()) when reason is called
Clock == {[y |-> 2024, mo |-> 5, d |-> 10, h |-> 9, mi |-> 15, s |-> 30]}

\* a later reading of the clock within the same call
LaterReadings(t) == {t, MinusDelta(t, 0, -1)[1]}

----------------------------------------------------------------------------
(***************************************************************************)
(* DeepReasoner.reason as a state machine.  A value not yet computed is    *)
(* << >>; a computed value v is <<v>>.                                     *)
(***************************************************************************)
VARIABLES
  text,                   \* the narrative text given to reason
  evidences,              \* the evidence list given to reason
  now,                    \* the clock reading of the first time analysis
  pc,                     \* the step reason is about to execute
  timestamps,             \* extract_timestamps(text)
  timeline,               \* the Timeline being built
  causal,                 \* the CausalAnalysis of the causal reasoner
  time_analysis,          \* result.time_analysis
  causal_analysis,        \* result.causal_analysis
  conflict_analysis,      \* result.conflict_analysis
  logical_analysis,       \* result.logical_analysis
  premeditation_analysis, \* result.premeditation_analysis
  evidence_chain,         \* result.evidence_chain
  recommendations,        \* result.recommendations
  confidence,             \* result.confidence
  op,                     \* the operation called ("reason" for the pipeline)
  arg,                    \* the argument of a direct call of one operation
  ret                     \* what that call returned, once it has

inputs == <<text, evidences, now>>

time_vars == <<timestamps, timeline, time_analysis>>

causal_vars == <<causal, causal_analysis>>

late_vars == <<conflict_analysis, logical_analysis, premeditation_analysis,
               evidence_chain, recommendations, confidence>>

unit_vars == <<op, arg, ret>>

vars == <<inputs, pc, time_vars, causal_vars, late_vars, unit_vars>>

\* the DeepReasoningResult as far as it has been filled in
Result ==
  [time_analysis |-> time_analysis[1],
   causal_analysis |-> causal_analysis[1],
   conflict_analysis |-> conflict_analysis[1],
   logical_analysis |-> logical_analysis[1],
   premeditation_analysis |-> premeditation_analysis[1],
   evidence_chain |-> evidence_chain[1]]

Unset ==
  /\ timestamps = << >> /\ timeline = << >> /\ time_analysis = << >>
  /\ causal = << >> /\ causal_analysis = << >>
  /\ conflict_analysis = << >> /\ logical_analysis = << >>
  /\ premeditation_analysis = << >> /\ evidence_chain = << >>
  /\ recommendations = << >> /\ confidence = 0

\* reason(text, evidences) is called
Init ==
  /\ text \in Texts
  /\ evidences \in EvidenceLists(MaxEvidence)
  /\ now \in Clock
  /\ pc = "extract_timestamps"
  /\ Unset
  /\ op = "reason" /\ arg = << >> /\ ret = << >>

\* extract_timestamps has returned ex or raised
Extracted(ex) ==
  IF ex.raised
  THEN pc' = "raised" /\ timestamps' = timestamps
  ELSE pc' = "build_timeline" /\ timestamps' = <<ex.timestamps>>

\* _analyze_time_series, first call: extract_timestamps
ExtractTimestamps ==
  /\ pc = "extract_timestamps"
  /\ Extracted(extract_timestamps(text, now))
  /\ UNCHANGED <<unit_vars, inputs, timeline, time_analysis, causal_vars,
                 late_vars>>

\* _analyze_time_series: build_timeline
BuildTimeline ==
  /\ pc = "build_timeline"
  /\ timeline' = <<build_timeline(timestamps[1])>>
  /\ pc' = "detect_time_conflicts"
  /\ UNCHANGED <<unit_vars, inputs, timestamps, time_analysis, causal_vars,
                 late_vars>>

\* _analyze_time_series: detect_time_conflicts
DetectTimeConflicts ==
  /\ pc = "detect_time_conflicts"
  /\ timeline' = <<WithConflicts(timeline[1])>>
  /\ pc' = "analyze_time_logic"
  /\ UNCHANGED <<unit_vars, inputs, timestamps, time_analysis, causal_vars,
                 late_vars>>

\* _analyze_time_series: analyze_time_logic and the summary
AnalyzeTimeLogic ==
  /\ pc = "analyze_time_logic"
  /\ time_analysis' =
       <<TimeSummary(timestamps[1], analyze_time_logic(timeline[1]))>>
  /\ pc' = "analyze_causality"
  /\ UNCHANGED <<unit_vars, inputs, timestamps, timeline, causal_vars,
                 late_vars>>

\* step 2 of reason: _analyze_causality
AnalyzeCausality ==
  /\ pc = "analyze_causality"
  /\ causal' = <<analyze_causality(text)>>
  /\ causal_analysis' = <<CausalSummary(causal'[1])>>
  /\ pc' = "detect_conflicts"
  /\ UNCHANGED <<unit_vars, inputs, time_vars, late_vars>>

\* step 3 of reason: _detect_conflicts
DetectConflicts ==
  /\ pc = "detect_conflicts"
  /\ conflict_analysis' = <<_detect_conflicts(text, evidences)>>
  /\ pc' = "analyze_logic"
  /\ UNCHANGED <<unit_vars, inputs, time_vars, causal_vars, logical_analysis,
                 premeditation_analysis, evidence_chain, recommendations,
                 confidence>>

\* _analyze_logic has returned logic or raised
Analyzed(logic) ==
  IF logic.raised
  THEN pc' = "raised" /\ logical_analysis' = logical_analysis
  ELSE pc' = "analyze_premeditation" /\ logical_analysis' = logic.value

\* _analyze_logic with the causal summary and the consistency score it
\* computes from the text; the time analysis reads the clock again
AnalyzeLogicWith(analysis, consistency) ==
  \E later \in LaterReadings(now) :
    Analyzed(LogicalOutcome(_analyze_time_series(text, later), analysis,
                            consistency))

\* step 4 of reason: _analyze_logic
AnalyzeLogic ==
  /\ pc = "analyze_logic"
  /\ AnalyzeLogicWith(_analyze_causality(text),
                      _calculate_logical_consistency(text, evidences))
  /\ UNCHANGED <<unit_vars, inputs, time_vars, causal_vars, conflict_analysis,
                 premeditation_analysis, evidence_chain, recommendations,
                 confidence>>

\* step 5 of reason: _analyze_premeditation
AnalyzePremeditation ==
  /\ pc = "analyze_premeditation"
  /\ premeditation_analysis' =
       <<_analyze_premeditation(text, time_analysis[1], causal_analysis[1])>>
  /\ pc' = "analyze_evidence_chain"
  /\ UNCHANGED <<unit_vars, inputs, time_vars, causal_vars, conflict_analysis,
                 logical_analysis, evidence_chain, recommendations,
                 confidence>>

\* step 6 of reason: _analyze_evidence_chain
AnalyzeEvidenceChain ==
  /\ pc = "analyze_evidence_chain"
  /\ evidence_chain' = <<_analyze_evidence_chain(evidences)>>
  /\ pc' = "generate_recommendations"
  /\ UNCHANGED <<unit_vars, inputs, time_vars, causal_vars, conflict_analysis,
                 logical_analysis, premeditation_analysis, recommendations,
                 confidence>>

\* step 7 of reason: _generate_recommendations
GenerateRecommendations ==
  /\ pc = "generate_recommendations"
  /\ recommendations' = <<DeepReasoner_generate_recommendations(Result)>>
  /\ pc' = "calculate_confidence"
  /\ UNCHANGED <<unit_vars, inputs, time_vars, causal_vars, conflict_analysis,
                 logical_analysis, premeditation_analysis, evidence_chain,
                 confidence>>

\* step 8 of reason: _calculate_confidence; reason returns
CalculateConfidence ==
  /\ pc = "calculate_confidence"
  /\ confidence' = _calculate_confidence(Result)
  /\ pc' = "done"
  /\ UNCHANGED <<unit_vars, inputs, time_vars, causal_vars, conflict_analysis,
                 logical_analysis, premeditation_analysis, evidence_chain,
                 recommendations>>

Next ==
  \/ ExtractTimestamps
  \/ BuildTimeline
  \/ DetectTimeConflicts
  \/ AnalyzeTimeLogic
  \/ AnalyzeCausality
  \/ DetectConflicts
  \/ AnalyzeLogic
  \/ AnalyzePremeditation
  \/ AnalyzeEvidenceChain
  \/ GenerateRecommendations
  \/ CalculateConfidence

Spec == Init /\ [][Next]_vars

----------------------------------------------------------------------------
(***************************************************************************)
(* Direct calls of single operations.  A call of op with argument arg is   *)
(* pending while pc = "call" and has returned ret[1] when pc = "return".   *)
(***************************************************************************)
\* the longest Timestamp list given to a direct call
MaxLen == 3

\* the matched texts of the Timestamps given to a direct call: 10点 3天前
SampleTexts == {<<"1", "0", "dian">>, <<"3", "tian", "qian">>}

\* their datetimes: unresolved, or one of two instants
SampleTimes ==
  {<< >>, datetime(2024, 5, 1, 10, 0, 0), datetime(2024, 5, 7, 9, 15, 30)}

RECURSIVE TimestampLists(_)
\* the Timestamp lists of at most n elements, ids in order of creation
TimestampLists(n) ==
  IF n = 0 THEN {<< >>}
  ELSE UNION {{l} \cup {Append(l, NewTimestamp(Len(l) + 1, t, "HOUR", t, d)) :
                          t \in SampleTexts,
                          d \in IF Len(l) = n - 1 THEN SampleTimes ELSE {}} :
              l \in TimestampLists(n - 1)}

\* the names of the five premeditation indicators
IndicatorNames ==
  {"preparation_time", "clear_causal_chain", "premeditation_keywords",
   "planning_keywords", "calm_keywords"}

\* arguments of _analyze_premeditation on which exactly the indicators in
\* present fire; an absent condition is a near miss where there is one
PremeditationCase(present) ==
  [text |->
     (IF "premeditation_keywords" \in present
      THEN premeditation_keywords[2] ELSE << >>)
     \o (IF "planning_keywords" \in present
         THEN planning_keywords[3] ELSE << >>)
     \o (IF "calm_keywords" \in present THEN calm_keywords[5] ELSE << >>),
   time_analysis |->
     [timestamps_count |-> 1,
      critical_timestamps |->
        <<[event |-> IF "preparation_time" \in present
                     THEN W_ZHIQIAN \o calm_keywords[5]
                     ELSE calm_keywords[5]]>>],
   causal_analysis |->
     [chains_count |-> 1,
      root_cause_confidence |->
        IF "clear_causal_chain" \in present
        THEN Frac(9, 10) ELSE Frac(7, 10)]]

\* two indicator sets, the second holding at least the first
IndicatorPairs ==
  {pair \in (SUBSET IndicatorNames) \X (SUBSET IndicatorNames) :
     pair[1] \subseteq pair[2]}

\* the relations given to evaluate_causal_strength
SampleRelations ==
  [cause : {<<"xia", "yu3">>}, effect : {<<"chi", "dao">>},
   causal_type : {"DIRECT", "INDIRECT", "NECESSARY", "SUFFICIENT",
                  "CONTRIBUTORY"},
   strength : {"STRONG", "MODERATE", "WEAK"},
   confidence : {Frac(k, 10) : k \in 0..10}]

\* the decimal digit d as a character
DigitChar(d) == CHOOSE c \in Digits : DigitVal(c) = d

RECURSIVE NumText(_)
\* str(n) for n >= 0
NumText(n) ==
  IF n < 10 THEN <<DigitChar(n)>>
  ELSE Append(NumText(n \div 10), DigitChar(n % 10))

\* Y年M月D日
DateText(y, mo, d) ==
  NumText(y) \o <<"nian">> \o NumText(mo) \o <<"yue">> \o NumText(d)
  \o <<"ri">>

\* Y年M月D日H点m分
DateTimeText(y, mo, d, h, mi) ==
  DateText(y, mo, d) \o NumText(h) \o <<"dian">> \o NumText(mi) \o <<"fen">>

\* N天前
DaysAgoText(n) == NumText(n) \o <<"tian", "qian">>

\* Y年M月D日,N天前
DatedDaysAgoText(date, n) ==
  DateText(date[1], date[2], date[3]) \o <<",">> \o DaysAgoText(n)

\* the valid dates and clock times of the full expressions extracted
SampleDateTimes ==
  [y : {2023, 2024}, mo : {2, 12}, d : {1, 28}, h : {0, 3, 10, 15, 23},
   mi : {0, 5, 30, 59}]

\* the numbers of days of the relative expressions extracted
SampleDays == {0, 3, 12, 40, 366}

\* the absolute dates that fix the reference date of a relative expression
SampleDates == {<<2024, 5, 10>>, <<2024, 3, 1>>}

\* the texts made of one full date and time, or of one N天前 with or without
\* a date before it
TimeTexts ==
  {DateTimeText(t.y, t.mo, t.d, t.h, t.mi) : t \in SampleDateTimes}
  \cup {DaysAgoText(n) : n \in SampleDays}
  \cup {DatedDaysAgoText(date, n) : date \in SampleDates, n \in SampleDays}

\* the named relative days and how many days before the reference day
\* each one means: 今天 今日 昨天 昨日 前天 大前天
NamedDays ==
  {[name |-> <<"jin", "tian">>, days |-> 0],
   [name |-> <<"jin", "ri">>, days |-> 0],
   [name |-> <<"zuo", "tian">>, days |-> 1],
   [name |-> <<"zuo", "ri">>, days |-> 1],
   [name |-> <<"qian", "tian">>, days |-> 2],
   [name |-> <<"da", "qian", "tian">>, days |-> 3]}

\* Y年M月D日,name
DatedText(date, name) ==
  DateText(date[1], date[2], date[3]) \o <<",">> \o name

\* the texts made of one named day, with or without a date before it
NamedDayTexts ==
  {n.name : n \in NamedDays}
  \cup {DatedText(date, n.name) : date \in SampleDates, n \in NamedDays}

\* the time-of-day markers: 早上 中午 下午 晚上
Markers ==
  {<<"zao", "shang">>, <<"zhong", "wu">>, <<"xia", "wu">>,
   <<"wan", "shang">>}

\* the hours and minutes of the colloquial expressions; no minute is << >>
SampleHours == {1, 8, 11, 12}

SampleMinutes == {<< >>, <<5>>, <<30>>}

\* N点 or N点M分
ClockText(h, mi) ==
  NumText(h) \o <<"dian">>
  \o (IF mi = << >> THEN << >> ELSE NumText(mi[1]) \o <<"fen">>)

\* N点半
HalfText(h) == NumText(h) \o <<"dian", "ban">>

\* the texts made of one colloquial expression: a marker and N点 or N点M分,
\* a bare N点M分, or a bare N点半
ColloquialTexts ==
  {m \o ClockText(h, mi) :
     m \in Markers, h \in SampleHours, mi \in SampleMinutes}
  \cup {ClockText(h, mi) : h \in SampleHours, mi \in SampleMinutes \ {<< >>}}
  \cup {HalfText(h) : h \in SampleHours}

\* the connectives of the explicit patterns:
\* 所以 因此 因而 故而 导致 引起 造成 致使 进而 从而
SampleConnectives ==
  {<<"suo", "yi">>, <<"yin", "ci">>, <<"yin", "er">>, <<"gu", "er">>,
   <<"dao3", "zhi4">>, <<"yin3", "qi">>, <<"zao4", "cheng">>,
   <<"zhi4", "shi3">>, <<"jin4", "er">>, <<"cong", "er">>}

\* the openings of the explicit patterns: none, 因为, 由于
SampleOpenings == {<< >>, <<"yin", "wei">>, <<"you2", "yu2">>}

\* the texts 他来到店里 + connective + 他走了。 with or without an
\* opening before them and with or without 首先他来到店里。然后他走了。 after
CausalTexts ==
  {o \o <<"ta", "lai", "dao", "dian4", "li3">> \o c
     \o <<"ta", "zou", "le", "period">> \o rest :
   o \in SampleOpenings, c \in SampleConnectives,
   rest \in {<< >>, F_FIRST_THEN}}

\* the most sentences of a text given to _detect_fact_conflicts
MaxSentences == 3

\* the sentences of those texts: 他是股东 他不是股东 他支付 他未支付 他走了
SampleSentences ==
  {<<"ta", "shi4", "gd", "dong">>, <<"ta", "bu", "shi4", "gd", "dong">>,
   <<"ta", "zhi1", "fu">>, <<"ta", "wei4", "zhi1", "fu">>,
   <<"ta", "zou", "le">>}

RECURSIVE SentenceLists(_)
\* the lists of at most n sentences
SentenceLists(n) ==
  IF n = 0 THEN {<< >>}
  ELSE UNION {{l} \cup {Append(l, s) :
                          s \in IF Len(l) = n - 1 THEN SampleSentences
                                ELSE {}} :
              l \in SentenceLists(n - 1)}

RECURSIVE TextOfSentences(_)
\* the sentences, each closed by 。
TextOfSentences(l) ==
  IF l = << >> THEN << >>
  ELSE Head(l) \o <<"period">> \o TextOfSentences(Tail(l))

\* the longest evidence list given to a direct call
MaxItems == 4

\* the Evidence items of those lists: every type, with weight 0.5 or 1.0
SampleItems ==
  [name : {"item"}, description : {<< >>}, evidence_type : EvidenceTypes,
   weight : {Frac(1, 2), Scale}]

RECURSIVE ItemLists(_)
\* the lists of at most n of these items
ItemLists(n) ==
  IF n = 0 THEN {<< >>}
  ELSE UNION {{l} \cup {Append(l, e) :
                          e \in IF Len(l) = n - 1 THEN SampleItems ELSE {}} :
              l \in ItemLists(n - 1)}

\* an optional evidence list as the program tests it: `not evidences' holds
\* of None as of the empty list
ListOf(given) == IF given = << >> THEN << >> ELSE given[1]

RECURSIVE Reversed(_)
\* list[::-1]
Reversed(l) == IF l = << >> THEN << >> ELSE Append(Reversed(Tail(l)), Head(l))

MaxRelations == 3

\* the events of the sample relations: 下雨 迟到 他走了
SampleNodes ==
  {<<"xia", "yu3">>, <<"chi", "dao">>, <<"ta", "zou", "le">>}

\* the relation lists of at most n relations between those events, cycles
\* and self-loops included; the ids count up as in extract_causal_relations
RelationLists(n) ==
  {[k \in 1..Len(ends) |->
      [id |-> <<"causal", k>>, cause |-> ends[k][1], effect |-> ends[k][2],
       causal_type |-> "DIRECT", strength |-> "MODERATE",
       confidence |-> Frac(1, 2)]] :
   ends \in UNION {[1..m -> SampleNodes \X SampleNodes] : m \in 0..n}}

\* the chain lists that build_causal_chain makes of them
ChainLists(n) ==
  {build_causal_chain(relations) : relations \in RelationLists(n)}

\* four events, enough for a chain whose relations do not join:
\* 下雨 迟到 他走了 他来了
SampleEvents == SampleNodes \cup {<<"ta", "lai", "le">>}

\* the relation lists of at most n relations between those events; the
\* confidences alternate between 0.5 and 1.0
BranchingRelationLists(n) ==
  {[k \in 1..Len(ends) |->
      [id |-> <<"causal", k>>, cause |-> ends[k][1], effect |-> ends[k][2],
       causal_type |-> "DIRECT", strength |-> "MODERATE",
       confidence |-> IF k % 2 = 1 THEN Frac(1, 2) ELSE Scale]] :
   ends \in UNION {[1..m -> SampleEvents \X SampleEvents] : m \in 0..n}}

\* the chains that build_causal_chain makes of the branching lists
SampleChains ==
  UNION {RangeOf(build_causal_chain(relations)) :
           relations \in BranchingRelationLists(MaxRelations)}

\* the direct calls: <<operation, argument>>
UnitCalls ==
  ({"_deduplicate_timestamps", "build_timeline"} \X TimestampLists(MaxLen))
  \cup ({"extract_timestamps"}
        \X (Texts \cup TimeTexts \cup NamedDayTexts \cup ColloquialTexts))
  \cup ({"_detect_fact_conflicts"}
        \X {TextOfSentences(l) : l \in SentenceLists(MaxSentences)})
  \cup ({"_analyze_evidence_chain"}
        \X ({<< >>} \cup {<<l>> : l \in ItemLists(MaxItems)}))
  \cup ({"_detect_evidence_conflicts"} \X EvidenceLists(MaxEvidence))
  \cup ({"_analyze_premeditation"} \X IndicatorPairs)
  \cup ({"_analyze_root_cause"} \X ChainLists(MaxRelations))
  \cup ({"detect_causal_gaps"} \X SampleChains)
  \cup ({"extract_causal_relations"} \X (Texts \cup CausalTexts))
  \cup ({"build_causal_chain"} \X BranchingRelationLists(MaxRelations))
  \cup ({"evaluate_causal_strength"} \X SampleRelations)

InitUnit ==
  /\ \E call \in UnitCalls : op = call[1] /\ arg = call[2]
  /\ ret = << >>
  /\ pc = "call"
  /\ text = << >> /\ evidences = << >> /\ now \in Clock
  /\ Unset

\* the call returns value
Return(value) ==
  /\ pc = "call"
  /\ ret' = <<value>>
  /\ pc' = "return"
  /\ UNCHANGED <<op, arg, inputs, time_vars, causal_vars, late_vars>>

CallDeduplicate ==
  op = "_deduplicate_timestamps" /\ Return(_deduplicate_timestamps(arg))

CallBuildTimeline ==
  op = "build_timeline" /\ Return(build_timeline(arg))

CallExtractTimestamps ==
  op = "extract_timestamps" /\ Return(extract_timestamps(arg, now))

\* _analyze_premeditation, called on the smaller and on the larger set
CallAnalyzePremeditation ==
  /\ op = "_analyze_premeditation"
  /\ Return([k \in 1..2 |->
               _analyze_premeditation(
                 PremeditationCase(arg[k]).text,
                 PremeditationCase(arg[k]).time_analysis,
                 PremeditationCase(arg[k]).causal_analysis)])

CallEvaluateStrength ==
  op = "evaluate_causal_strength" /\ Return(evaluate_causal_strength(arg))

CallDetectFactConflicts ==
  op = "_detect_fact_conflicts" /\ Return(_detect_fact_conflicts(arg))

\* _detect_evidence_conflicts, called on the list and on the list reversed
CallDetectEvidenceConflicts ==
  /\ op = "_detect_evidence_conflicts"
  /\ Return(<<_detect_evidence_conflicts(arg),
              _detect_evidence_conflicts(Reversed(arg))>>)

\* _analyze_evidence_chain, given None (<< >>) or a list (<<list>>)
CallAnalyzeEvidenceChain ==
  /\ op = "_analyze_evidence_chain"
  /\ Return(_analyze_evidence_chain(ListOf(arg)))

CallAnalyzeRootCause ==
  op = "_analyze_root_cause" /\ Return(_analyze_root_cause(arg))

CallExtractCausalRelations ==
  /\ op = "extract_causal_relations"
  /\ Return(extract_causal_relations(arg))

CallDetectCausalGaps ==
  op = "detect_causal_gaps" /\ Return(detect_causal_gaps(arg))

\* build_causal_chain as one call
CallBuildChains ==
  /\ op = "build_causal_chain" /\ pc = "call"
  /\ Return(build_causal_chain(arg))

NextUnit ==
  \/ CallDeduplicate
  \/ CallBuildTimeline
  \/ CallExtractTimestamps
  \/ CallAnalyzePremeditation
  \/ CallEvaluateStrength
  \/ CallDetectFactConflicts
  \/ CallDetectEvidenceConflicts
  \/ CallAnalyzeEvidenceChain
  \/ CallAnalyzeRootCause
  \/ CallBuildChains
  \/ CallDetectCausalGaps
  \/ CallExtractCausalRelations

SpecUnit == InitUnit /\ [][NextUnit]_vars

----------------------------------------------------------------------------
(***************************************************************************)
(* build_causal_chain step by step.  ret holds the locals of the call:     *)
(* graph, chains and visited of build_causal_chain, the index k of its     *)
(* loop, and the stack of the _trace_chain calls in progress with the      *)
(* visited set `seen` they share.  A frame holds start, the chain built so *)
(* far and the position `next` in graph[start]: 0 before the call's first  *)
(* statement, -1 once the call is about to return.  traced keeps the node  *)
(* list behind each chain of chains.                                       *)
(***************************************************************************)
NoLocals ==
  [graph |-> << >>, chains |-> << >>, visited |-> {}, k |-> 1,
   stack |-> << >>, seen |-> {}, traced |-> << >>]

Frame(start) == [start |-> start, chain |-> << >>, next |-> 0]

\* the test of the loop always passing
UnvisitedAlways(next_node, visited) == TRUE

\* next_node not in visited
Unvisited(next_node, visited) == next_node \notin visited

InitChain ==
  /\ op = "build_causal_chain"
  /\ arg \in RelationLists(MaxRelations)
  /\ ret = NoLocals
  /\ pc = "call"
  /\ text = << >> /\ evidences = << >> /\ now \in Clock
  /\ Unset

\* the call moves on to position with the given locals
Step(position, locals) ==
  /\ pc' = position
  /\ ret' = locals
  /\ UNCHANGED <<op, arg, inputs, time_vars, causal_vars, late_vars>>

\* build_causal_chain up to its loop
CallBuildCausalChain ==
  /\ op = "build_causal_chain" /\ pc = "call"
  /\ IF arg = << >>
     THEN Step("return", ret)
     ELSE Step("for_relation",
               [ret EXCEPT !.graph = _build_causal_graph(arg)])

\* one pass of the loop over relations, up to the call of _trace_chain
ForRelation ==
  /\ pc = "for_relation"
  /\ ret.k <= Len(arg)
  /\ IF arg[ret.k].cause \notin ret.visited
     THEN Step("_trace_chain",
               [ret EXCEPT !.stack = <<Frame(arg[ret.k].cause)>>,
                           !.seen = {}])
     ELSE Step("for_relation", [ret EXCEPT !.k = @ + 1])

\* the loop is over
ReturnChains ==
  /\ pc = "for_relation"
  /\ ret.k > Len(arg)
  /\ Step("return", ret)

\* the innermost call of _trace_chain
Top == ret.stack[Len(ret.stack)]

\* the stack with its innermost frame replaced
WithTop(frame) == [ret.stack EXCEPT ![Len(ret.stack)] = frame]

\* _trace_chain up to its loop
TraceEnter ==
  /\ pc = "_trace_chain"
  /\ Top.next = 0
  /\ IF Top.start \in ret.seen \/ Top.start \notin DOMAIN ret.graph
     THEN Step("_trace_chain",
               [ret EXCEPT !.stack = WithTop([Top EXCEPT
                                                !.chain = <<Top.start>>,
                                                !.next = -1])])
     ELSE Step("_trace_chain",
               [ret EXCEPT !.stack = WithTop([Top EXCEPT
                                                !.chain = <<Top.start>>,
                                                !.next = 1]),
                           !.seen = @ \cup {Top.start}])

\* one pass of the loop over graph[start], up to the recursive call
TraceNextNode ==
  /\ pc = "_trace_chain"
  /\ Top.next >= 1
  /\ Top.next <= Len(ret.graph[Top.start])
  /\ IF Unvisited(ret.graph[Top.start][Top.next], ret.seen)
     THEN Step("_trace_chain",
               [ret EXCEPT !.stack =
                  Append(@, Frame(ret.graph[Top.start][Top.next]))])
     ELSE Step("_trace_chain",
               [ret EXCEPT !.stack = WithTop([Top EXCEPT !.next = @ + 1])])

\* the innermost call is about to return
Returning ==
  Top.next = -1 \/ (Top.next >= 1 /\ Top.next > Len(ret.graph[Top.start]))

\* a recursive call returns: chain.extend(sub_chain)
TraceReturnInner ==
  /\ pc = "_trace_chain"
  /\ Len(ret.stack) > 1
  /\ Returning
  /\ Step("_trace_chain",
          [ret EXCEPT !.stack =
             [j \in 1..(Len(ret.stack) - 1) |->
                IF j < Len(ret.stack) - 1 THEN ret.stack[j]
                ELSE [ret.stack[j] EXCEPT !.chain = @ \o Top.chain,
                                          !.next = @ + 1]]])

\* the outermost call returns to build_causal_chain, which ends its pass
TraceReturnOuter ==
  /\ pc = "_trace_chain"
  /\ Len(ret.stack) = 1
  /\ Returning
  /\ Step("for_relation",
          [ret EXCEPT
             !.stack = << >>,
             !.chains = IF Len(Top.chain) > 1
                        THEN Append(@, _create_causal_chain(Top.chain, arg))
                        ELSE @,
             !.traced = IF Len(Top.chain) > 1 THEN Append(@, Top.chain)
                        ELSE @,
             !.visited = @ \cup RangeOf(Top.chain),
             !.k = @ + 1])

NextChain ==
  \/ CallBuildCausalChain
  \/ ForRelation
  \/ ReturnChains
  \/ TraceEnter
  \/ TraceNextNode
  \/ TraceReturnInner
  \/ TraceReturnOuter

SpecChain == InitChain /\ [][NextChain]_vars

\* the call runs on its own thread of control: a step that can be taken is
\* taken
SpecChainFair == SpecChain /\ WF_vars(NextChain)

----------------------------------------------------------------------------
(***************************************************************************)
(* Properties.  A score x stands for the real number x / Scale.            *)
(***************************************************************************)
\* x is a score in [0, 1]
InUnitInterval(x) == 0 <= x /\ x <= Scale

\* C1: for every text, extract_timestamps and reason return without
\* raising.
ExtractionNeverRaises == pc # "raised"

\* C2: in the summary of analyze_time_logic, logic_valid is true exactly
\* when the timeline has no conflict of severity critical or high.
LogicValidIffNoSevereConflict ==
  time_analysis # << >> =>
    (time_analysis[1].logic_valid
       <=> ~\E k \in 1..Len(timeline[1].conflicts) :
              timeline[1].conflicts[k].severity \in {"critical", "high"})

\* C3: the text 因为下雨,所以迟到。 yields a relation with cause 下雨 and
\* effect 迟到, of type DIRECT and confidence 0.85.
BecauseSoYieldsDirectRelation ==
  (text = F_BECAUSE \o F_SO /\ causal # << >>) =>
    \E k \in 1..Len(causal[1].causal_relations) :
      /\ causal[1].causal_relations[k].cause = <<"xia", "yu3">>
      /\ causal[1].causal_relations[k].effect = <<"chi", "dao">>
      /\ causal[1].causal_relations[k].causal_type = "DIRECT"
      /\ causal[1].causal_relations[k].confidence = Frac(85, 100)

\* C4: the output of extract_timestamps holds no two Timestamps with the
\* same raw text, and the Timestamp _deduplicate_timestamps keeps for a text
\* is one of the candidates with that text, of the highest confidence.
DeduplicatedKeepsBest ==
  /\ (pc = "return" /\ op = "extract_timestamps") =>
       \A i, j \in 1..Len(ret[1].timestamps) :
         ret[1].timestamps[i].text = ret[1].timestamps[j].text => i = j
  /\ (pc = "return" /\ op = "_deduplicate_timestamps") =>
       /\ \A i, j \in 1..Len(ret[1]) :
            ret[1][i].text = ret[1][j].text => i = j
       /\ \A k \in 1..Len(arg) :
            \E i \in 1..Len(ret[1]) :
              /\ ret[1][i].text = arg[k].text
              /\ ret[1][i].confidence >= arg[k].confidence
       /\ \A i \in 1..Len(ret[1]) : \E k \in 1..Len(arg) : arg[k] = ret[1][i]

\* C4 witness: a list with a repeated text whose later candidate has the
\* higher confidence has been deduplicated.
DeduplicatedLaterBest ==
  /\ pc = "return" /\ op = "_deduplicate_timestamps"
  /\ Len(ret[1]) < Len(arg)
  /\ \E i, j \in 1..Len(arg) :
       /\ i < j /\ arg[i].text = arg[j].text
       /\ arg[i].confidence < arg[j].confidence

\* C5: the timeline build_timeline returns holds exactly the resolved
\* timestamps, in non-decreasing order of datetime; it has max(0, n - 1)
\* intervals, the i-th joining timestamps i and i + 1 with a non-negative
\* duration equal to the difference of their datetimes.
TimelineSortedWithIntervals ==
  (pc = "return" /\ op = "build_timeline") =>
    LET placed   == ret[1].timestamps
        resolved == SelectSeq(arg, LAMBDA t : t.datetime # << >>)
    IN  /\ Len(placed) = Len(resolved)
        /\ {placed[i] : i \in 1..Len(placed)}
             = {resolved[i] : i \in 1..Len(resolved)}
        /\ \A i \in 1..(Len(placed) - 1) :
             DtLeq(placed[i].datetime[1], placed[i + 1].datetime[1])
        /\ Len(ret[1].intervals) = Max2(0, Len(placed) - 1)
        /\ \A i \in 1..Len(ret[1].intervals) :
             /\ ret[1].intervals[i].start = placed[i]
             /\ ret[1].intervals[i].end = placed[i + 1]
             /\ ret[1].intervals[i].duration >= 0
             /\ ret[1].intervals[i].duration
                  = (ToOrdinal(placed[i + 1].datetime[1])
                       - ToOrdinal(placed[i].datetime[1])) * 86400
                    + SecondOfDay(placed[i + 1].datetime[1])
                    - SecondOfDay(placed[i].datetime[1])

\* C5 witness: a timeline has been built from a list that holds an
\* unresolved timestamp and two resolved ones given latest first.
TimelineBuiltFromUnsorted ==
  /\ pc = "return" /\ op = "build_timeline"
  /\ \E k \in 1..Len(arg) : arg[k].datetime = << >>
  /\ \E i, j \in 1..Len(arg) :
       /\ i < j /\ arg[i].datetime # << >> /\ arg[j].datetime # << >>
       /\ DtLess(arg[j].datetime[1], arg[i].datetime[1])
  /\ Len(ret[1].intervals) = 1
  /\ ret[1].intervals[1].duration > 0

\* C6: every score of the result lies in [0, 1]: confidence,
\* premeditation_score, logical_consistency, logical_completeness, the
\* completeness and consistency of the evidence chain, and
\* root_cause_confidence.
ScoresInUnitInterval ==
  /\ InUnitInterval(confidence)
  /\ causal_analysis # << >> =>
       InUnitInterval(causal_analysis[1].root_cause_confidence)
  /\ logical_analysis # << >> =>
       /\ InUnitInterval(logical_analysis[1].logical_consistency)
       /\ InUnitInterval(logical_analysis[1].logical_completeness)
  /\ premeditation_analysis # << >> =>
       InUnitInterval(premeditation_analysis[1].premeditation_score)
  /\ evidence_chain # << >> =>
       /\ InUnitInterval(evidence_chain[1].completeness)
       /\ InUnitInterval(evidence_chain[1].consistency)

\* C6 witness: reason has returned for a text with a root cause and a
\* premeditation indicator, and three pieces of evidence.
ScoredWithEvidence ==
  /\ pc = "done"
  /\ Len(evidences) = 3
  /\ causal_analysis[1].root_cause_confidence > 0
  /\ premeditation_analysis[1].premeditation_score > 0
  /\ logical_analysis[1].logical_consistency < Scale

\* C7: premeditation_score is min(1.0, the sum of the weights of the
\* indicators that fire), the weights being 0.2, 0.2, 0.3, 0.2 and 0.2; it
\* lies in [0, 1] and does not decrease when further indicators are present.
PremeditationScoreIsCappedSum ==
  (pc = "return" /\ op = "_analyze_premeditation") =>
    LET Weight(present, name, weight) == IF name \in present THEN weight ELSE 0
        Total(present) ==
          Weight(present, "preparation_time", Frac(2, 10))
          + Weight(present, "clear_causal_chain", Frac(2, 10))
          + Weight(present, "premeditation_keywords", Frac(3, 10))
          + Weight(present, "planning_keywords", Frac(2, 10))
          + Weight(present, "calm_keywords", Frac(2, 10))
    IN  /\ \A k \in 1..2 :
             /\ {ret[1][k].indicators[i] :
                   i \in 1..Len(ret[1][k].indicators)} = arg[k]
             /\ ret[1][k].premeditation_score = Min2(Scale, Total(arg[k]))
             /\ InUnitInterval(ret[1][k].premeditation_score)
        /\ ret[1][1].premeditation_score <= ret[1][2].premeditation_score

\* C7 witness: the score has been computed with four and with all five
\* indicators present, where the sum of the weights exceeds 1.
PremeditationAllIndicators ==
  /\ pc = "return" /\ op = "_analyze_premeditation"
  /\ Cardinality(arg[1]) = 4 /\ arg[2] = IndicatorNames
  /\ ret[1][1].premeditation_score < Scale
  /\ ret[1][2].premeditation_score = Scale

\* C8: the confidence reason returns is min(1.0, (0.25 if the time logic is
\* valid, else 0.10) + 0.25 * root_cause_confidence
\* + 0.25 * logical_consistency + w), w being 0.25, 0.15 or 0.05 for strong,
\* moderate or weak evidence.
ConfidenceIsWeightedSum ==
  pc = "done" =>
    confidence =
      Min2(Scale,
           (IF time_analysis[1].logic_valid THEN Frac(25, 100)
            ELSE Frac(10, 100))
           + Mul(Frac(25, 100), causal_analysis[1].root_cause_confidence)
           + Mul(Frac(25, 100), logical_analysis[1].logical_consistency)
           + (CASE evidence_chain[1].strength = "strong" -> Frac(25, 100)
                [] evidence_chain[1].strength = "moderate" -> Frac(15, 100)
                [] evidence_chain[1].strength = "weak" -> Frac(5, 100)))

\* C8 witness: reason has returned with strong evidence, valid time logic,
\* a root cause and a contradiction counted against the consistency.
ConfidenceWithStrongEvidence ==
  /\ pc = "done"
  /\ evidence_chain[1].strength = "strong"
  /\ time_analysis[1].logic_valid
  /\ causal_analysis[1].root_cause_confidence > 0
  /\ logical_analysis[1].logical_consistency < Scale

\* C9: on the empty text extract_timestamps returns the empty list, and
\* analyze_causality returns no relations, chains or gaps, the root cause
\* 无法确定 and the root-cause confidence 0.0.
EmptyTextYieldsNothing ==
  text = << >> =>
    /\ pc # "raised"
    /\ timestamps # << >> => timestamps[1] = << >>
    /\ causal # << >> =>
         /\ causal[1].causal_relations = << >>
         /\ causal[1].causal_chains = << >>
         /\ causal[1].causal_gaps = << >>
         /\ causal[1].root_cause_analysis.root_cause = UNDETERMINED
         /\ causal[1].root_cause_analysis.confidence = 0

\* C9 witness: both analyses have run on the empty text.
EmptyTextAnalysed ==
  text = << >> /\ timestamps # << >> /\ causal # << >>

\* C10: evaluate_causal_strength is min(1.0, (type weight + strength
\* weight) * confidence), the type weights being DIRECT 0.9, SUFFICIENT
\* 0.85, NECESSARY 0.7, INDIRECT 0.6, CONTRIBUTORY 0.5 and the strength
\* weights STRONG 0.3, MODERATE 0.2, WEAK 0.1; it lies in [0, 1].
StrengthIsCappedProduct ==
  (pc = "return" /\ op = "evaluate_causal_strength") =>
    LET type_weight ==
          CASE arg.causal_type = "DIRECT" -> Frac(90, 100)
            [] arg.causal_type = "SUFFICIENT" -> Frac(85, 100)
            [] arg.causal_type = "NECESSARY" -> Frac(70, 100)
            [] arg.causal_type = "INDIRECT" -> Frac(60, 100)
            [] arg.causal_type = "CONTRIBUTORY" -> Frac(50, 100)
        strength_weight ==
          CASE arg.strength = "STRONG" -> Frac(30, 100)
            [] arg.strength = "MODERATE" -> Frac(20, 100)
            [] arg.strength = "WEAK" -> Frac(10, 100)
    IN  /\ ret[1] = Min2(Scale,
                         Mul(type_weight + strength_weight, arg.confidence))
        /\ InUnitInterval(ret[1])

\* C10 witness: a DIRECT, STRONG relation of confidence 1.0 has been
\* evaluated, where the product 1.2 is capped.
StrengthCapped ==
  /\ pc = "return" /\ op = "evaluate_causal_strength"
  /\ arg.causal_type = "DIRECT" /\ arg.strength = "STRONG"
  /\ arg.confidence = Scale
  /\ ret[1] = Scale
\* C11: a full date and time Y年M月D日H点m分 with valid values, such as
\* 2024年5月1日10点30分, yields a Timestamp for the whole expression that
\* resolves to exactly (Y, M, D, H, m), with precision MINUTE and without
\* an afternoon shift of the hour.
FullDateTimeResolvesExactly ==
  (pc = "return" /\ op = "extract_timestamps") =>
    \A t \in SampleDateTimes \cup {[y |-> 2024, mo |-> 5, d |-> 1, h |-> 10,
                                    mi |-> 30]} :
      arg = DateTimeText(t.y, t.mo, t.d, t.h, t.mi) =>
        /\ ~ret[1].raised
        /\ \E k \in 1..Len(ret[1].timestamps) :
             /\ ret[1].timestamps[k].text = arg
             /\ ret[1].timestamps[k].datetime
                  = <<[y |-> t.y, mo |-> t.mo, d |-> t.d, h |-> t.h,
                       mi |-> t.mi, s |-> 0]>>
             /\ ret[1].timestamps[k].precision = "MINUTE"
             /\ ~ret[1].timestamps[k].is_estimate

\* C11 witness: 2024年5月1日10点30分 has been extracted, and so has a full
\* expression with a morning hour other than 10.
FullDateTimeExtracted ==
  /\ pc = "return" /\ op = "extract_timestamps"
  /\ arg \in {F_DATETIME, DateTimeText(2023, 2, 28, 3, 5)}
  /\ \E k \in 1..Len(ret[1].timestamps) :
       ret[1].timestamps[k].text = arg /\ ret[1].timestamps[k].datetime # << >>

\* C12: N天前 resolves to the reference date minus N days with precision
\* DAY, the reference date being that of the first absolute date of the text
\* or else of the clock; with the reference date 2024-05-10, 3天前 resolves
\* to 2024-05-07.
DaysAgoResolvesToEarlierDate ==
  (pc = "return" /\ op = "extract_timestamps") =>
    LET Resolved(n, reference) ==
          \E k \in 1..Len(ret[1].timestamps) :
            /\ ret[1].timestamps[k].text = DaysAgoText(n)
            /\ ret[1].timestamps[k].precision = "DAY"
            /\ ret[1].timestamps[k].datetime # << >>
            /\ ToOrdinal(ret[1].timestamps[k].datetime[1])
                 = ToOrdinal(reference) - n
        OnDate(n, y, mo, d) ==
          \E k \in 1..Len(ret[1].timestamps) :
            /\ ret[1].timestamps[k].text = DaysAgoText(n)
            /\ ret[1].timestamps[k].datetime # << >>
            /\ ret[1].timestamps[k].datetime[1].y = y
            /\ ret[1].timestamps[k].datetime[1].mo = mo
            /\ ret[1].timestamps[k].datetime[1].d = d
    IN  /\ \A n \in SampleDays :
             /\ arg = DaysAgoText(n) => Resolved(n, now)
             /\ \A date \in SampleDates :
                  arg = DatedDaysAgoText(date, n) =>
                    Resolved(n, [y |-> date[1], mo |-> date[2],
                                 d |-> date[3]])
        /\ arg = DatedDaysAgoText(<<2024, 5, 10>>, 3) => OnDate(3, 2024, 5, 7)
        /\ (arg = DaysAgoText(3) /\ ToOrdinal(now) = ToOrdinal(
              [y |-> 2024, mo |-> 5, d |-> 10])) => OnDate(3, 2024, 5, 7)

\* C12 witness: 3天前 has been extracted with the reference date 2024-05-10
\* taken from the text.
DaysAgoExtracted ==
  /\ pc = "return" /\ op = "extract_timestamps"
  /\ arg = DatedDaysAgoText(<<2024, 5, 10>>, 3)
  /\ \E k \in 1..Len(ret[1].timestamps) :
       /\ ret[1].timestamps[k].text = DaysAgoText(3)
       /\ ret[1].timestamps[k].datetime # << >>
\* C13: _detect_fact_conflicts checks every unordered pair of sentences
\* once: a pair in which one sentence contains a keyword of one of the six
\* antonym pairs and the other contains its opposite, in either direction,
\* is reported exactly once, with type fact and severity medium, and no
\* other pair is reported; 他是股东。他不是股东。 yields exactly one
\* contradiction.
FactConflictOncePerPair ==
  (pc = "return" /\ op = "_detect_fact_conflicts") =>
    LET Opposed(a, b) ==
          \E k \in 1..6 :
            \/ Contains(a, conflict_pairs[k][1])
                 /\ Contains(b, conflict_pairs[k][2])
            \/ Contains(a, conflict_pairs[k][2])
                 /\ Contains(b, conflict_pairs[k][1])
        Reports(i, j) ==
          Cardinality({k \in 1..Len(ret[1]) :
                         ret[1][k].items = <<i - 1, j - 1>>})
    IN  /\ Len(conflict_pairs) = 6
        /\ \A k \in 1..Len(ret[1]) :
             ret[1][k].type = "fact" /\ ret[1][k].severity = "medium"
        /\ \A l \in SentenceLists(MaxSentences) :
             arg = TextOfSentences(l) =>
               /\ \A k \in 1..Len(ret[1]) :
                    /\ ret[1][k].items[1] < ret[1][k].items[2]
                    /\ ret[1][k].items[2] < Len(l)
               /\ \A i, j \in 1..Len(l) :
                    i < j => Reports(i, j)
                               = IF Opposed(l[i], l[j]) THEN 1 ELSE 0
        /\ arg = F_IS \o F_IS_NOT => Len(ret[1]) = 1

\* C13 witness: the contradiction of 他未支付。他走了。他支付。 has been
\* reported, the negated sentence coming first and another in between.
FactConflictReversedPair ==
  /\ pc = "return" /\ op = "_detect_fact_conflicts"
  /\ arg = TextOfSentences(<<<<"ta", "wei4", "zhi1", "fu">>,
                             <<"ta", "zou", "le">>, <<"ta", "zhi1", "fu">>>>)
  /\ Len(ret[1]) = 1
  /\ ret[1][1].items = <<0, 2>>
\* C14: when no Evidence item is supplied, None or the empty list, the
\* evidence-chain analysis has strength weak, completeness 0.0, consistency
\* 0.0 and exactly one gap, which tells that evidence is absent.
NoEvidenceIsWeakWithOneGap ==
  (pc = "return" /\ op = "_analyze_evidence_chain"
     /\ arg \in {<< >>, << << >> >>}) =>
    /\ ret[1].strength = "weak"
    /\ ret[1].completeness = 0
    /\ ret[1].consistency = 0
    /\ Len(ret[1].gaps) = 1
    /\ ret[1].gaps[1][1] = "no_evidence"

\* C14 witness: the analysis has returned for the empty list.
NoEvidenceAnalysed ==
  /\ pc = "return" /\ op = "_analyze_evidence_chain"
  /\ arg = << << >> >>
  /\ ret[1].gaps # << >>

\* C17: for a non-empty evidence list, completeness is min(1, number of
\* distinct evidence types / 3), consistency is the mean weight, and
\* strength is strong iff both are at least 0.8, moderate iff it is not
\* strong and both are at least 0.6, and weak otherwise.
EvidenceStrengthTiers ==
  (pc = "return" /\ op = "_analyze_evidence_chain" /\ ListOf(arg) # << >>) =>
    LET evs      == arg[1]
        types    == Cardinality({evs[k].evidence_type : k \in 1..Len(evs)})
        Total[k \in 0..Len(evs)] ==
          IF k = 0 THEN 0 ELSE Total[k - 1] + evs[k].weight
        strong   == /\ ret[1].completeness >= Frac(8, 10)
                    /\ ret[1].consistency >= Frac(8, 10)
        moderate == /\ ~strong
                    /\ ret[1].completeness >= Frac(6, 10)
                    /\ ret[1].consistency >= Frac(6, 10)
    IN  /\ ret[1].completeness = Min2(Scale, (types * Scale) \div 3)
        /\ ret[1].consistency * Len(evs) = Total[Len(evs)]
        /\ ret[1].strength = "strong" <=> strong
        /\ ret[1].strength = "moderate" <=> moderate
        /\ ret[1].strength = "weak" <=> ~strong /\ ~moderate

\* C17 witness: four items of four types, of mean weight 0.75, have been
\* analysed: the completeness is capped and the strength is moderate.
EvidenceFourTypesModerate ==
  /\ pc = "return" /\ op = "_analyze_evidence_chain"
  /\ Len(ListOf(arg)) = 4
  /\ {arg[1][k].evidence_type : k \in 1..4} = EvidenceTypes
  /\ ret[1].completeness = Scale
  /\ ret[1].consistency = Frac(3, 4)
  /\ ret[1].strength = "moderate"
\* C15: when no advisory trigger fires (no time-logic issue, no causal
\* gap, no contradiction, valid logic, premeditation score below 0.7 and an
\* evidence chain without gaps) the recommendations are exactly the single
\* message that no issue was found; otherwise the list ends with the note
\* to investigate further.
NoTriggerGivesNoIssues ==
  recommendations # << >> =>
    IF /\ time_analysis[1].logic_issues = << >>
       /\ causal_analysis[1].gaps_count = 0
       /\ conflict_analysis[1].total_conflicts = 0
       /\ logical_analysis[1].logic_valid
       /\ premeditation_analysis[1].premeditation_score < Frac(7, 10)
       /\ evidence_chain[1].gaps = << >>
    THEN recommendations[1] = <<<<"no_issues", "">>>>
    ELSE recommendations[1][Len(recommendations[1])]
           = <<"investigate_further", "">>
\* C16: _detect_evidence_conflicts treats a pair of Evidence items as
\* unordered: the set of item pairs it reports is the same for a list and
\* for the list reversed, a pair being reported whenever one description
\* contains a keyword of the antonym table and the other its opposite,
\* whichever item comes first.
EvidenceConflictsUnordered ==
  (pc = "return" /\ op = "_detect_evidence_conflicts") =>
    LET Flagged(list, conflicts) ==
          {{list[conflicts[k].items[1] + 1], list[conflicts[k].items[2] + 1]} :
             k \in 1..Len(conflicts)}
        Opposed(a, b) ==
          \E k \in 1..Len(conflict_keywords) :
            \/ Contains(a.description, conflict_keywords[k][1])
                 /\ Contains(b.description, conflict_keywords[k][2])
            \/ Contains(a.description, conflict_keywords[k][2])
                 /\ Contains(b.description, conflict_keywords[k][1])
    IN  /\ Flagged(arg, ret[1][1]) = Flagged(Reversed(arg), ret[1][2])
        /\ \A i, j \in 1..Len(arg) :
             (i < j /\ Opposed(arg[i], arg[j])) =>
               {arg[i], arg[j]} \in Flagged(arg, ret[1][1])
        /\ \A k \in 1..Len(ret[1][1]) : ret[1][1][k].severity = "high"
\* C18: the root cause is undetermined with confidence 0.0 when there is no
\* chain, the root of the chain with 0.9 when there is exactly one, and a
\* root of minimal length with 0.7 and every root kept as an alternate when
\* there are two or more; the confidence is always 0.0, 0.7 or 0.9
RootCauseByChainCount ==
  (pc = "return" /\ op = "_analyze_root_cause") =>
    LET roots == [k \in 1..Len(arg) |-> arg[k].root_cause]
    IN  /\ ret[1].confidence \in {0, Frac(7, 10), Frac(9, 10)}
        /\ Len(arg) = 0 =>
              ret[1].root_cause = UNDETERMINED /\ ret[1].confidence = 0
        /\ Len(arg) = 1 =>
              /\ ret[1].root_cause = roots[1]
              /\ ret[1].confidence = Frac(9, 10)
        /\ Len(arg) >= 2 =>
              /\ ret[1].root_cause \in RangeOf(roots)
              /\ \A k \in 1..Len(roots) :
                    Len(ret[1].root_cause) <= Len(roots[k])
              /\ ret[1].confidence = Frac(7, 10)
              /\ ret[1].other_possibilities = roots

\* C18: some call with two chains chose the root of the second, the shorter
RootCauseShorterSecond ==
  /\ pc = "return" /\ op = "_analyze_root_cause"
  /\ Len(arg) = 2
  /\ Len(arg[2].root_cause) < Len(arg[1].root_cause)
  /\ ret[1].root_cause = arg[2].root_cause
  /\ ret[1].confidence = Frac(7, 10)
\* the stepwise build_causal_chain returns what the operator computes
StepwiseChainsAgree ==
  (op = "build_causal_chain" /\ pc = "return") =>
    ret.chains = build_causal_chain(arg)

\* no node string twice
NoRepeat(nodes) ==
  \A i, j \in 1..Len(nodes) : nodes[i] = nodes[j] => i = j

\* C19: build_causal_chain returns for every relation list, cycles and
\* self-loops included, and no node string appears twice in a node list
\* traced for a chain
ChainTraceTerminatesWithoutRepeat ==
  /\ <>(pc = "return")
  /\ [](/\ \A j \in 1..Len(ret.stack) : NoRepeat(ret.stack[j].chain)
        /\ \A i \in 1..Len(ret.traced) : NoRepeat(ret.traced[i]))

\* C19: some call returned chains of a list with a self-loop and with two
\* relations that are each other's reverse
ChainTracedThroughCycle ==
  /\ op = "build_causal_chain" /\ pc = "return"
  /\ \E i \in 1..Len(arg) : arg[i].cause = arg[i].effect
  /\ \E i, j \in 1..Len(arg) :
       /\ arg[i].cause # arg[i].effect
       /\ arg[i].cause = arg[j].effect /\ arg[i].effect = arg[j].cause
  /\ ret.chains # << >>
\* C20: every relation whose cause is among the nodes traced from a chain's
\* root is one of that chain's relations, so that all the effects of a cause
\* with several effects are in the one chain
ReachedRelationsInChain ==
  (op = "build_causal_chain" /\ pc = "return") =>
    \A i \in 1..Len(ret.chains) : \A k \in 1..Len(arg) :
      arg[k].cause \in RangeOf(ret.traced[i]) =>
        arg[k] \in RangeOf(ret.chains[i].relations)
\* the adjacent pairs of relations that do not join
Unjoined(relations) ==
  {i \in 1..(Len(relations) - 1) :
     relations[i].effect # relations[i + 1].cause}

\* C21: every chain that build_causal_chain returns has a relation, the
\* cause of its first relation as root cause, the effect of its last as
\* final effect, the mean of its relations' confidences as completeness, and
\* one gap for each adjacent pair of relations that do not join
ChainFieldsFromRelations ==
  (op = "build_causal_chain" /\ pc = "return") =>
    \A i \in 1..Len(ret[1]) :
      LET chain == ret[1][i]
          n     == Len(chain.relations)
      IN  /\ n >= 1
          /\ chain.root_cause = chain.relations[1].cause
          /\ chain.final_effect = chain.relations[n].effect
          /\ chain.completeness * n = SumConfidence(chain.relations)
          /\ Len(chain.gaps) = Cardinality(Unjoined(chain.relations))
          /\ \A g \in 1..Len(chain.gaps) :
               \E j \in Unjoined(chain.relations) :
                 /\ chain.gaps[g].from = chain.relations[j].effect
                 /\ chain.gaps[g].to = chain.relations[j + 1].cause

\* C21: some call returned a chain of two relations of different confidence
\* that do not join
ChainWithGapBuilt ==
  /\ op = "build_causal_chain" /\ pc = "return"
  /\ \E i \in 1..Len(ret[1]) :
       /\ Len(ret[1][i].relations) = 2 /\ Len(ret[1][i].gaps) = 1
       /\ ret[1][i].relations[1].confidence
            # ret[1][i].relations[2].confidence
       /\ ret[1][i].completeness = Frac(3, 4)
\* the Timestamps of the timeline that carry the given id
WithId(id) ==
  {t \in RangeOf(timeline[1].timestamps) : t.id = id}

\* the event text holds one of 之后 后 然后 接着 第二
HasAfterCue(t) == ContainsAny(t.event, after_keywords)

\* C22: an order conflict has severity high and is reported for a pair of
\* resolved Timestamps only when one of them has an after-class cue in its
\* event text and a time before the other's; a timeline without such a cue
\* has no order conflict
OrderConflictNeedsAfterCue ==
  timeline # << >> =>
    LET order == {k \in 1..Len(timeline[1].conflicts) :
                    timeline[1].conflicts[k].type = "order"}
    IN  /\ \A k \in order :
             LET c == timeline[1].conflicts[k]
             IN  /\ c.severity = "high"
                 /\ Len(c.timestamps) = 2
                 /\ \A a \in WithId(c.timestamps[1]) :
                    \A b \in WithId(c.timestamps[2]) :
                      /\ a.datetime # << >> /\ b.datetime # << >>
                      /\ \/ HasAfterCue(a)
                            /\ DtLess(a.datetime[1], b.datetime[1])
                         \/ HasAfterCue(b)
                            /\ DtLess(b.datetime[1], a.datetime[1])
        /\ (\A t \in RangeOf(timeline[1].timestamps) : ~HasAfterCue(t))
             => order = {}

\* C22: some timeline has an order conflict between two of its Timestamps
OrderConflictReported ==
  /\ timeline # << >>
  /\ \E k \in 1..Len(timeline[1].conflicts) :
       /\ timeline[1].conflicts[k].type = "order"
       /\ WithId(timeline[1].conflicts[k].timestamps[1]) # {}
       /\ WithId(timeline[1].conflicts[k].timestamps[2]) # {}

\* some timeline of several resolved Timestamps without a cue was checked
NoCueTimelineChecked ==
  /\ timeline # << >> /\ pc = "analyze_time_logic"
  /\ \E i, j \in 1..Len(timeline[1].timestamps) :
       /\ timeline[1].timestamps[i].datetime # << >>
       /\ timeline[1].timestamps[j].datetime # << >>
       /\ timeline[1].timestamps[i].datetime
            # timeline[1].timestamps[j].datetime
  /\ \A t \in RangeOf(timeline[1].timestamps) : ~HasAfterCue(t)
\* C23: a named relative day resolves to midnight of the reference day for
\* 今天 and 今日, of the day before for 昨天 and 昨日, of two days before for
\* 前天 and of three days before for 大前天
NamedDaysResolveToMidnight ==
  (pc = "return" /\ op = "extract_timestamps") =>
    LET Resolved(n, reference) ==
          \A k \in 1..Len(ret[1].timestamps) :
            ret[1].timestamps[k].text = n.name =>
              /\ ret[1].timestamps[k].datetime # << >>
              /\ ToOrdinal(ret[1].timestamps[k].datetime[1])
                   = ToOrdinal(reference) - n.days
              /\ SecondOfDay(ret[1].timestamps[k].datetime[1]) = 0
    IN  \A n \in NamedDays :
          /\ arg = n.name => Resolved(n, now)
          /\ \A date \in SampleDates :
               arg = DatedText(date, n.name) =>
                 Resolved(n, [y |-> date[1], mo |-> date[2], d |-> date[3]])
\* the hour that a marker gives the hour n
MarkedHour(m, n) ==
  IF m = <<"zao", "shang">> THEN n
  ELSE IF m = <<"zhong", "wu">> THEN 12
  ELSE n + 12

\* the Timestamp is resolved on the reference day at hour h
ResolvedAtHour(t, h) ==
  /\ t.datetime # << >> /\ ~t.is_estimate
  /\ ToOrdinal(t.datetime[1]) = ToOrdinal(now)
  /\ t.datetime[1].h = h

\* C24: for 早上, 中午, 下午 or 晚上 followed by N点 or N点M分 with a valid
\* hour, the Timestamp whose text is the whole expression is resolved on the
\* reference date: at hour N for 早上, 12 for 中午, and N + 12 for 下午 and
\* 晚上 when N is not 12
MarkedTimesResolve ==
  (pc = "return" /\ op = "extract_timestamps") =>
    \A m \in Markers : \A h \in SampleHours \ {12} :
    \A mi \in SampleMinutes :
      arg = m \o ClockText(h, mi) =>
        \E k \in 1..Len(ret[1].timestamps) :
          /\ ret[1].timestamps[k].text = arg
          /\ ResolvedAtHour(ret[1].timestamps[k], MarkedHour(m, h))

\* C25: a bare N点M分 or N点半 with N < 12 resolves to hour N + 12 on the
\* reference date, 半 giving minute 30; no Timestamp extracted from
\* 早上N点M分 is resolved with that shift of 12 hours
BareShiftedMorningNot ==
  (pc = "return" /\ op = "extract_timestamps") =>
    \A h \in {n \in SampleHours : n < 12} :
      /\ \A mi \in SampleMinutes \ {<< >>} :
           /\ arg = ClockText(h, mi) =>
                \E k \in 1..Len(ret[1].timestamps) :
                  /\ ret[1].timestamps[k].text = arg
                  /\ ResolvedAtHour(ret[1].timestamps[k], h + 12)
                  /\ ret[1].timestamps[k].datetime[1].mi = mi[1]
           /\ arg = <<"zao", "shang">> \o ClockText(h, mi) =>
                \A k \in 1..Len(ret[1].timestamps) :
                  ret[1].timestamps[k].datetime # << >> =>
                    ret[1].timestamps[k].datetime[1].h # h + 12
      /\ arg = HalfText(h) =>
           \E k \in 1..Len(ret[1].timestamps) :
             /\ ret[1].timestamps[k].text = arg
             /\ ResolvedAtHour(ret[1].timestamps[k], h + 12)
             /\ ret[1].timestamps[k].datetime[1].mi = 30
\* the matches of every explicit pattern in the text, as <<pattern, match>>
ExplicitMatches(t) ==
  {<<p, k>> \in (1..Len(legal_causal_patterns)) \X (1..Len(t) + 1) :
     k <= Len(FindIter(legal_causal_patterns[p].re, t))}

ClearChainAwarded ==
  \E k \in 1..Len(premeditation_analysis[1].indicators) :
    premeditation_analysis[1].indicators[k] = "clear_causal_chain"

\* C27: the indicator of a high-confidence root cause is awarded exactly when
\* the causal analysis produced exactly one chain: not with no chain, and
\* not with two or more, the root-cause confidence then being 0.7
ClearChainIffOneChain ==
  premeditation_analysis # << >> =>
    /\ ClearChainAwarded <=> Len(causal[1].causal_chains) = 1
    /\ Len(causal[1].causal_chains) >= 2 =>
         causal_analysis[1].root_cause_confidence = Frac(7, 10)

\* C27: premeditation was analysed with two chains and the indicator was not
\* awarded
TwoChainsNotAwarded ==
  /\ premeditation_analysis # << >>
  /\ Len(causal[1].causal_chains) = 2
  /\ ~ClearChainAwarded

\* premeditation was analysed with one chain and the indicator was awarded
OneChainAwarded ==
  /\ premeditation_analysis # << >>
  /\ Len(causal[1].causal_chains) = 1
  /\ ClearChainAwarded
\* C28: the gaps that one call of detect_causal_gaps returns have pairwise
\* distinct ids, also when the chain is flagged both for a missing root cause
\* and for a missing final effect
GapIdsDistinct ==
  (pc = "return" /\ op = "detect_causal_gaps") =>
    \A i, j \in 1..Len(ret[1]) : ret[1][i].id = ret[1][j].id => i = j
\* the evidence types among the items given
TypesGiven == {arg[1][k].evidence_type : k \in 1..Len(arg[1])}

\* the gaps list has an entry for a missing category
MissingCategoryReported ==
  \E k \in 1..Len(ret[1].gaps) : ret[1].gaps[k][1] = "missing"

NoConflictWithOwnCopy ==
  (pc = "return" /\ op = "_detect_fact_conflicts") =>
    \A s \in SampleSentences :
      arg = TextOfSentences(<<s, s>>) => ret[1] = << >>

====
